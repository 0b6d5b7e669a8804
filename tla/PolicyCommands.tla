-------------------------- MODULE PolicyCommands ---------------------------
(***************************************************************************)
(* What commit, sign and deploy promise to the operator who runs them one  *)
(* after the other: each is done at once and whole, and no file is ever    *)
(* seen half written.                                                      *)
(***************************************************************************)
EXTENDS Naturals

CONSTANTS
    Contents,   \* policy texts an operator may put into active.dsl
    Invalid,    \* those validate_dsl refuses
    Keys,       \* key pairs that may be drawn
    Paths,      \* key files a command may be told to use
    MaxClock,   \* bound on the seconds that pass
    Absent,     \* the file does not exist
    NoBundle    \* a revision that is not signed

VARIABLES
    active,     \* the text under edit
    head,       \* the revision committed last
    revs,       \* the revisions by name
    deployed,   \* the revision the proxies read
    keys,       \* the key pairs of the key files
    drawn,      \* key pairs generated so far
    clock       \* the current second

vars == <<active, head, revs, deployed, keys, drawn, clock>>

RevIds == (Contents \ Invalid) \X (0..MaxClock)

Init ==
    /\ active = Absent /\ head = Absent /\ deployed = Absent
    /\ keys = [p \in Paths |-> Absent]
    /\ revs = [i \in RevIds |-> Absent]
    /\ drawn = {} /\ clock = 0

EditActive ==
    /\ \E t \in Contents \ {active} : active' = t
    /\ UNCHANGED <<head, revs, deployed, keys, drawn, clock>>

Tick ==
    /\ clock < MaxClock
    /\ clock' = clock + 1
    /\ UNCHANGED <<active, head, revs, deployed, keys, drawn>>

\* The text under edit becomes the revision HEAD names, not yet signed; within
\* one second this takes the signature off a revision of the same text.
Commit ==
    /\ active \in Contents \ Invalid
    /\ head' = <<active, clock>>
    /\ revs' = [revs EXCEPT ![head'] = [id |-> head', content |-> active, bundle |-> NoBundle]]
    /\ UNCHANGED <<active, deployed, keys, drawn, clock>>

\* The key of a file, or one that is drawn for it.
TakeKey(p, k) ==
    \/ keys[p] = k /\ UNCHANGED <<keys, drawn>>
    \/ /\ keys[p] = Absent /\ keys' = [keys EXCEPT ![p] = k]
       /\ k \notin drawn /\ drawn' = drawn \cup {k}

Signed(r, k) == [r EXCEPT !.bundle = [rev |-> r.id, content |-> r.content, key |-> k]]

\* The key is made even when there is nothing to sign.
Sign ==
    /\ \E p \in Paths, k \in Keys :
          /\ TakeKey(p, k)
          /\ \/ head \in RevIds /\ revs' = [revs EXCEPT ![head] = Signed(@, k)]
             \/ head = Absent /\ UNCHANGED revs
    /\ UNCHANGED <<active, head, deployed, clock>>

\* Only what is signed is deployed, and it is what HEAD names.
Deploy ==
    /\ head \in RevIds
    /\ revs[head].bundle # NoBundle
    /\ deployed' = revs[head]
    /\ UNCHANGED <<active, head, revs, keys, drawn, clock>>

Next == EditActive \/ Tick \/ Commit \/ Sign \/ Deploy

Spec == Init /\ [][Next]_vars

=============================================================================
