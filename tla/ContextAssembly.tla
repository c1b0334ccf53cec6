-------------------------- MODULE ContextAssembly --------------------------
(* Packing the ranked chunks into the token budget of the prompt.          *)
EXTENDS Naturals, Sequences, SequencesExt

CONSTANTS
    Cost(_),     \* tokens of a chunk, rendered with its header
    Separator,   \* tokens of CHUNK_SEPARATOR
    Budget       \* max_context_tokens

ASSUME AssemblyAssumption == Separator \in Nat /\ Budget \in Nat \ {0}

Empty == [included |-> <<>>, dropped |-> <<>>, tokens |-> 0]

(* `projected`: the running total if the next chunk were taken.            *)
Projected(ctx, hit) ==
    ctx.tokens + Cost(hit.chunk)
        + (IF ctx.included = <<>> THEN 0 ELSE Separator)

Include(ctx, hit) ==
    [ctx EXCEPT !.included = Append(@, hit), !.tokens = Projected(ctx, hit)]
Drop(ctx, hit) == [ctx EXCEPT !.dropped = Append(@, hit)]

(* Wrong: a chunk that would fill the budget to the brim is dropped.       *)
ConsiderStrictly(ctx, hit) ==
    IF ctx.included = <<>> \/ Projected(ctx, hit) < Budget
    THEN Include(ctx, hit) ELSE Drop(ctx, hit)

(* One turn of the loop: the first chunk is taken whatever its size, a     *)
(* later one if it fits; a chunk that does not is skipped, not the end.    *)
Consider(ctx, hit) ==
    IF ctx.included = <<>> \/ Projected(ctx, hit) <= Budget
    THEN Include(ctx, hit) ELSE Drop(ctx, hit)

Assemble(hits) == FoldLeft(Consider, Empty, hits)

WasTruncated(ctx) == ctx.dropped # <<>>
HasText(ctx)      == ctx.included # <<>>
=============================================================================
