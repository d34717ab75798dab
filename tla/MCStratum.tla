----------------------------- MODULE MCStratum -----------------------------
(***************************************************************************)
(* Small nodes: two miners connected at once that find two blocks; the     *)
(* integrated miner, or a miner, and blocks of peers; one miner and a      *)
(* slave chain that sends four jobs; one miner and a slave chain whose     *)
(* difficulty changes; the integrated miner and a slave chain whose jobs   *)
(* make stratum jobs; a miner and the integrated miner that both find      *)
(* solutions for the slave chain; and one miner at every difficulty.       *)
(***************************************************************************)
EXTENDS Stratum

CONSTANTS c1, c2

\* The largest hash below the target of a difficulty.  The slave chain's
\* difficulty of 4 comes back from its target as 5.
HashFor(diff) == [hi |-> GetTarget(From64(diff)) - 1, lo |-> Base - 1]

Find(f, hash) == [g \in Finders |-> IF g = f THEN {hash} ELSE {}]

\* One miner with a block of the node's own difficulty to find; no slave chain.
Plain(d) == [diff |-> d, miners |-> {c1}, solo |-> FALSE, hashes |-> Find(c1, HashFor(d)),
             slaveJobs |-> 0, slaveDiffs |-> {}, mergeJobs |-> 0, peers |-> FALSE,
             settled |-> FALSE, maxTop |-> 1]

\* The same with a slave chain.
Merged(jobs, diffs) == [Plain(7) EXCEPT !.hashes = Find(c1, HashFor(5)),
                                        !.slaveJobs = jobs, !.slaveDiffs = diffs]

MCNodes ==
  { [Plain(7) EXCEPT !.miners = {c1, c2}, !.settled = TRUE, !.maxTop = 2],
    [Plain(7) EXCEPT !.miners = {}, !.solo = TRUE, !.hashes = Find(Solo, HashFor(7)), !.peers = TRUE],
    [Plain(7) EXCEPT !.peers = TRUE],
    Merged(4, {4}),
    Merged(2, {4, 6}),
    [Merged(1, {4}) EXCEPT !.miners = {}, !.solo = TRUE, !.hashes = Find(Solo, HashFor(5)),
                           !.mergeJobs = 1],
    [Merged(1, {4}) EXCEPT !.solo = TRUE, !.hashes = [f \in Finders |-> {HashFor(5)}],
                           !.settled = TRUE] }
  \cup {Plain(d) : d \in Limb \ {0}}

MCSampleDiffs == 10 .. 40 \cup {500, 20000}
MCSampleTimes == {0, 1, 2, 3} \cup 145 .. 155 \cup {224, 226, 300, 9000}
=============================================================================
