--------------------------- MODULE WindowSelection ---------------------------
(***************************************************************************)
(* map_candidate_from_digest_sequence (RealLLM/beacon_protocol.py): from a *)
(* stream of digests, read as integers below Universe (2^512 in the code), *)
(* pick one of count windows without modulo bias.  A digest at or above    *)
(* the largest multiple of count is rejected and the next one is tried.    *)
(* The stream is finite; the code's has 2^32 digests.                      *)
(***************************************************************************)
EXTENDS Integers, FiniteSets

CONSTANTS
    Universe,   \* number of digests
    MaxCount,   \* bound: window counts tried
    Draws       \* bound: length of the digest stream

ASSUME UniverseAssumption == Universe \in Nat \ {0}
ASSUME CountAssumption == MaxCount \in 1..Universe /\ Draws \in Nat

Digests == 0..Universe - 1

\* Mutant: no digest is rejected.
NoLimit(count) == Universe

Limit(count) == Universe - (Universe % count)

VARIABLES
    count,      \* candidate_count
    stream,     \* the digests hashed from the pulse and a counter
    counter,    \* the enumerate() position
    index,      \* the candidate index returned
    outcome     \* "drawing", "selected" or "exhausted"

vars == <<count, stream, counter, index, outcome>>

Init ==
    /\ count \in 1..MaxCount
    /\ stream \in [0..Draws - 1 -> Digests]
    /\ counter = 0
    /\ index = 0
    /\ outcome = "drawing"

\* Mutants: the limit itself is accepted; the quotient is taken for the index.
AcceptLimit ==
    /\ outcome = "drawing" /\ counter < Draws
    /\ stream[counter] <= Limit(count)
    /\ index' = stream[counter] % count
    /\ outcome' = "selected"
    /\ UNCHANGED <<count, stream, counter>>
AcceptQuotient ==
    /\ outcome = "drawing" /\ counter < Draws
    /\ stream[counter] < Limit(count)
    /\ index' = stream[counter] \div count
    /\ outcome' = "selected"
    /\ UNCHANGED <<count, stream, counter>>

Accept ==
    /\ outcome = "drawing" /\ counter < Draws
    /\ stream[counter] < Limit(count)
    /\ index' = stream[counter] % count
    /\ outcome' = "selected"
    /\ UNCHANGED <<count, stream, counter>>

Reject ==
    /\ outcome = "drawing" /\ counter < Draws
    /\ stream[counter] >= Limit(count)
    /\ counter' = counter + 1
    /\ UNCHANGED <<count, stream, index, outcome>>

\* RuntimeError: rejection sampling exhausted its digest stream
Exhaust ==
    /\ outcome = "drawing" /\ counter = Draws
    /\ outcome' = "exhausted"
    /\ UNCHANGED <<count, stream, counter, index>>

Next == Accept \/ Reject \/ Exhaust

Spec == Init /\ [][Next]_vars

-----------------------------------------------------------------------------
\* The acceptable digests that select window i of n.
Share(n, i) == {d \in Digests : d < Limit(n) /\ d % n = i}

TypeOK ==
    /\ count \in 1..MaxCount
    /\ stream \in [0..Draws - 1 -> Digests]
    /\ counter \in 0..Draws
    /\ index \in 0..count - 1
    /\ outcome \in {"drawing", "selected", "exhausted"}

\* No window is likelier than another: the digests that are accepted fall on
\* every window equally often, and at least one falls on each.
Unbiased ==
    \A i \in 0..count - 1 :
        Cardinality(Share(count, i)) = Universe \div count

\* The selection agrees with its definition: the window of the first digest
\* of the stream that is below the limit, and failure only when none is; a
\* second reader of the same stream therefore selects the same window.
FirstAcceptable ==
    LET acceptable == {k \in 0..Draws - 1 : stream[k] < Limit(count)} IN
        /\ outcome = "selected" =>
               \E k \in acceptable :
                   /\ \A j \in acceptable : k <= j
                   /\ counter = k
                   /\ stream[k] \in Share(count, index)
        /\ outcome = "exhausted" => acceptable = {}
=============================================================================
