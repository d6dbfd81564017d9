--------------------------- MODULE MCBlocksPipeline ---------------------------
(* Instances of BlocksPipeline for TLC.                                    *)
EXTENDS BlocksPipeline, TLC

\* Two blocks, the first with two events (one index was skipped).
SmallChain == <<{1, 3}, {1}>>

\* One event per block.
ThinChain == <<{1}, {2}>>

\* A block with nothing but its mark, then one event.
TailChain == <<{}, {1}>>

WorkerSymmetry == Permutations(Worker)
=============================================================================
