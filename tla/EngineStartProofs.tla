------------------------- MODULE EngineStartProofs -------------------------
(***************************************************************************)
(* Proofs about the policy directory and the proxy that reads it, in three *)
(* parts.  Whatever commands run side by side on one directory, and        *)
(* wherever they break off, HEAD names a written revision and what is     *)
(* deployed is a revision as it was committed and signed.  A proxy that    *)
(* requires signatures only ever serves a text that was committed, signed  *)
(* and deployed as it stands, by a key the command line made: the chain    *)
(* from active.dsl to the hot cache.  And commands that run one at a time  *)
(* leave one key, and are atomic if none of them breaks off.               *)
(***************************************************************************)
EXTENDS EngineStart, TLAPS

USE DEF files, locals

-----------------------------------------------------------------------------
\* Signing a well-formed revision keeps it a well-formed revision, now signed.
LEMMA SignedWellFormed ==
    ASSUME NEW r \in Revisions, WellFormed(r), NEW k \in Keys,
           NEW s, s = [r EXCEPT !.bundle = Bundle(r.id, r.content, k)]
    PROVE  s \in Revisions /\ s.id = r.id /\ WellFormed(s) /\ s.bundle # NoBundle
<1>1. Bundle(r.id, r.content, k) \in Bundles
  BY DEF Bundle, Bundles, Revisions
<1> QED
  BY <1>1, StoreConstantsOK DEF Revisions, WellFormed, Signs, Bundle

\* What commit writes is a well-formed revision.
LEMMA FreshWellFormed ==
    ASSUME TypeOK, active \in Contents \ Invalid,
           NEW s, s = [id |-> <<active, clock>>, content |-> active, bundle |-> NoBundle]
    PROVE  s \in Revisions /\ WellFormed(s) /\ <<active, clock>> \in RevIds
BY DEF TypeOK, Revisions, RevIds, WellFormed

\* What belongs to one command.
Mine(d) == <<pc[d], job[d], id[d], rev[d], signer[d], path[d]>>

\* A command changes nothing that belongs to another one.
LEMMA Frame ==
    ASSUME TypeOK, NEW c \in Clis, Command(c), NEW d \in Clis, d # c
    PROVE  Mine(d)' = Mine(d)
<1> USE DEF TypeOK, Mine, Move, Stop
<1>1. CASE Commit(c)
  BY <1>1 DEF Commit
<1>2. CASE TruncateRevision(c)
  BY <1>2 DEF TruncateRevision
<1>3. CASE FillRevision(c)
  BY <1>3 DEF FillRevision
<1>4. CASE TruncateHead(c)
  BY <1>4 DEF TruncateHead
<1>5. CASE FillHead(c)
  BY <1>5 DEF FillHead
<1>6. CASE UseKey(c)
  BY <1>6 DEF UseKey
<1>7. CASE GenerateKey(c)
  BY <1>7 DEF GenerateKey
<1>8. CASE TruncateKey(c)
  BY <1>8 DEF TruncateKey
<1>9. CASE FillKey(c)
  BY <1>9 DEF FillKey
<1>10. CASE SignHead(c)
  BY <1>10 DEF SignHead
<1>11. CASE Deploy(c)
  BY <1>11 DEF Deploy
<1>12. CASE LoadToSign(c)
  BY <1>12 DEF LoadToSign
<1>13. CASE LoadToDeploy(c)
  BY <1>13 DEF LoadToDeploy
<1>14. CASE TruncateDeployed(c)
  BY <1>14 DEF TruncateDeployed
<1>15. CASE FillDeployed(c)
  BY <1>15 DEF FillDeployed
<1>16. CASE BreakOff(c)
  BY <1>16 DEF BreakOff
<1> QED
  BY <1>1, <1>2, <1>3, <1>4, <1>5, <1>6, <1>7, <1>8,
     <1>9, <1>10, <1>11, <1>12, <1>13, <1>14, <1>15, <1>16 DEF Command

\* How a command changes the files that the invariant speaks of.
LEMMA FileSteps ==
    ASSUME TypeOK, NEW c \in Clis, Command(c)
    PROVE  /\ \/ revs' = revs
              \/ pc[c] = "rev.trunc" /\ revs' = [revs EXCEPT ![id[c]] = Empty]
              \/ /\ pc[c] = "rev.fill"
                 /\ \E f \in {rev[c], Garbled} : revs' = [revs EXCEPT ![id[c]] = f]
           /\ \/ head' = head
              \/ head' = Empty
              \/ pc[c] = "head.fill" /\ head' = id[c]
           /\ \/ deployed' = deployed
              \/ deployed' \in {Empty, Garbled}
              \/ pc[c] = "deploy.fill" /\ deployed' = rev[c]
<1> USE DEF Filled
<1>1. CASE Commit(c)
  BY <1>1 DEF Commit
<1>2. CASE TruncateRevision(c)
  BY <1>2 DEF TruncateRevision
<1>3. CASE FillRevision(c)
  BY <1>3 DEF FillRevision
<1>4. CASE TruncateHead(c)
  BY <1>4 DEF TruncateHead
<1>5. CASE FillHead(c)
  BY <1>5 DEF FillHead
<1>6. CASE UseKey(c)
  BY <1>6 DEF UseKey
<1>7. CASE GenerateKey(c)
  BY <1>7 DEF GenerateKey
<1>8. CASE TruncateKey(c)
  BY <1>8 DEF TruncateKey
<1>9. CASE FillKey(c)
  BY <1>9 DEF FillKey
<1>10. CASE SignHead(c)
  BY <1>10 DEF SignHead
<1>11. CASE Deploy(c)
  BY <1>11 DEF Deploy
<1>12. CASE LoadToSign(c)
  BY <1>12 DEF LoadToSign
<1>13. CASE LoadToDeploy(c)
  BY <1>13 DEF LoadToDeploy
<1>14. CASE TruncateDeployed(c)
  BY <1>14 DEF TruncateDeployed
<1>15. CASE FillDeployed(c)
  BY <1>15 DEF FillDeployed
<1>16. CASE BreakOff(c)
  BY <1>16 DEF BreakOff, Mixed
<1> QED
  BY <1>1, <1>2, <1>3, <1>4, <1>5, <1>6, <1>7, <1>8,
     <1>9, <1>10, <1>11, <1>12, <1>13, <1>14, <1>15, <1>16 DEF Command

-----------------------------------------------------------------------------
\* That two commands were in one file is never forgotten.
LEMMA OverlappedStays ==
    ASSUME overlapped \in BOOLEAN, NEW c \in Clis, Command(c)
    PROVE  overlapped' \in BOOLEAN /\ (overlapped => overlapped')
<1>1. ASSUME NEW S, Truncates(S)
      PROVE  overlapped' \in BOOLEAN /\ (overlapped => overlapped')
  BY <1>1, Zenon DEF Truncates
<1>2. ASSUME overlapped' = overlapped
      PROVE  overlapped' \in BOOLEAN /\ (overlapped => overlapped')
  BY <1>2
<1>3. overlapped' = overlapped \/ \E S : Truncates(S)
  BY DEF Command, Commit, TruncateRevision, FillRevision, TruncateHead, FillHead, UseKey,
         GenerateKey, TruncateKey, FillKey, SignHead, Deploy, LoadToSign, LoadToDeploy,
         TruncateDeployed, FillDeployed, BreakOff
<1> QED
  BY <1>1, <1>2, <1>3

\* A step of a command keeps the types; the revision it writes and the key it
\* signs with are there because of JobInv.
LEMMA TypePreserved ==
    ASSUME TypeOK, StoreInv, NEW c \in Clis, Command(c)
    PROVE  TypeOK'
<1>j. JobInv(c) /\ RevsInv
  BY DEF StoreInv
<1>o. overlapped' \in BOOLEAN
  BY OverlappedStays DEF TypeOK
<1>p. DefaultPath \in Paths
  BY StoreConstantsOK
<1> USE <1>o, <1>p DEF TypeOK, Move, Stop, PCs, Jobs
<1>1. CASE Commit(c)
  <2>1. <<active, clock>> \in RevIds /\ rev'[c] \in Revisions
    BY <1>1, FreshWellFormed DEF Commit
  <2> QED
    BY <1>1, <2>1 DEF Commit
<1>2. CASE TruncateRevision(c)
  BY <1>2 DEF TruncateRevision
<1>3. CASE FillRevision(c)
  BY <1>3, <1>j DEF FillRevision, JobInv, Filled
<1>4. CASE TruncateHead(c)
  BY <1>4 DEF TruncateHead
<1>5. CASE FillHead(c)
  BY <1>5, <1>j DEF FillHead, JobInv
<1>6. CASE UseKey(c)
  BY <1>6 DEF UseKey
<1>7. CASE GenerateKey(c)
  BY <1>7 DEF GenerateKey
<1>8. CASE TruncateKey(c)
  BY <1>8 DEF TruncateKey
<1>9. CASE FillKey(c)
  BY <1>9, <1>j DEF FillKey, JobInv
<1>10. CASE SignHead(c)
  BY <1>10 DEF SignHead
<1>11. CASE Deploy(c)
  BY <1>11 DEF Deploy
<1>12. CASE LoadToSign(c)
  <2> DEFINE r == revs[id[c]]
  <2>1. ASSUME r \in Revisions
        PROVE  [r EXCEPT !.bundle = Bundle(r.id, r.content, signer[c])] \in Revisions
    <3>1. id[c] \in RevIds /\ signer[c] \in Keys
      BY <1>12, <1>j DEF LoadToSign, JobInv
    <3>2. WellFormed(r)
      BY <1>j, <2>1, <3>1 DEF RevsInv
    <3> QED
      BY <2>1, <3>1, <3>2, SignedWellFormed
  <2> QED
    BY <1>12, <2>1 DEF LoadToSign
<1>13. CASE LoadToDeploy(c)
  BY <1>13 DEF LoadToDeploy, Deployable
<1>14. CASE TruncateDeployed(c)
  BY <1>14 DEF TruncateDeployed
<1>15. CASE FillDeployed(c)
  BY <1>15, <1>j DEF FillDeployed, JobInv, Filled
<1>16. CASE BreakOff(c)
  BY <1>16, StoreConstantsOK DEF BreakOff, Mixed
<1> QED
  BY <1>1, <1>2, <1>3, <1>4, <1>5, <1>6, <1>7, <1>8,
     <1>9, <1>10, <1>11, <1>12, <1>13, <1>14, <1>15, <1>16 DEF Command

\* The revision files stay well named and well formed, and none disappears.
LEMMA RevsPreserved ==
    ASSUME TypeOK, StoreInv, NEW c \in Clis, Command(c)
    PROVE  /\ RevsInv'
           /\ \A i \in RevIds : revs[i] # Absent => revs'[i] # Absent
<1>1. JobInv(c) /\ RevsInv
  BY DEF StoreInv
<1>2. /\ Empty \notin Revisions /\ Garbled \notin Revisions /\ Absent \notin Revisions
      /\ Absent # Empty /\ Absent # Garbled
  BY StoreConstantsOK
<1>3. CASE revs' = revs
  BY <1>1, <1>3 DEF RevsInv
<1>4. CASE pc[c] = "rev.trunc" /\ revs' = [revs EXCEPT ![id[c]] = Empty]
  BY <1>1, <1>2, <1>4 DEF RevsInv, TypeOK
<1>5. CASE /\ pc[c] = "rev.fill"
           /\ \E f \in {rev[c], Garbled} : revs' = [revs EXCEPT ![id[c]] = f]
  <2>1. rev[c] \in Revisions /\ rev[c].id = id[c] /\ WellFormed(rev[c]) /\ id[c] \in RevIds
    BY <1>1, <1>5 DEF JobInv
  <2>2. rev[c] # Absent
    BY <1>2, <2>1
  <2> QED
    BY <1>1, <1>2, <1>5, <2>1, <2>2 DEF RevsInv, TypeOK
<1> QED
  BY <1>3, <1>4, <1>5, FileSteps

\* HEAD is only ever given the name of a revision that was written.
LEMMA HeadPreserved ==
    ASSUME TypeOK, StoreInv, NEW c \in Clis, Command(c)
    PROVE  HeadResolves'
<1>1. JobInv(c) /\ HeadResolves
  BY DEF StoreInv
<1>2. Empty \notin RevIds
  BY StoreConstantsOK
<1>3. pc[c] = "head.fill" => id[c] \in RevIds /\ revs[id[c]] # Absent
  BY <1>1 DEF JobInv
<1> QED
  BY <1>1, <1>2, <1>3, FileSteps, RevsPreserved DEF HeadResolves

\* deployed/current.json is only ever filled with a signed revision.
LEMMA DeployPreserved ==
    ASSUME TypeOK, StoreInv, NEW c \in Clis, Command(c)
    PROVE  DeployInv'
<1>1. JobInv(c) /\ DeployInv
  BY DEF StoreInv
<1>2. Empty \notin Revisions /\ Garbled \notin Revisions
  BY StoreConstantsOK
<1>3. pc[c] = "deploy.fill" => WellFormed(rev[c]) /\ rev[c].bundle # NoBundle
  BY <1>1 DEF JobInv
<1> QED
  BY <1>1, <1>2, <1>3, FileSteps DEF DeployInv

\* The command that steps holds what its next step needs.
LEMMA OwnJob ==
    ASSUME TypeOK, StoreInv, NEW c \in Clis, Command(c)
    PROVE  JobInv(c)'
<1>j. JobInv(c) /\ RevsInv /\ HeadResolves
  BY DEF StoreInv
<1>k. Empty # Absent /\ Garbled # Absent /\ Absent \notin Revisions
  BY StoreConstantsOK
<1> USE <1>j DEF TypeOK, Move, Stop, JobInv
<1>1. CASE Commit(c)
  <2>1. /\ <<active, clock>> \in RevIds /\ rev'[c] \in Revisions /\ WellFormed(rev'[c])
        /\ rev'[c].id = <<active, clock>>
    BY <1>1, FreshWellFormed DEF Commit
  <2> QED
    BY <1>1, <2>1 DEF Commit
<1>2. CASE TruncateRevision(c)
  BY <1>2, <1>k DEF TruncateRevision
<1>3. CASE FillRevision(c)
  BY <1>3, <1>k DEF FillRevision, Filled
<1>4. CASE TruncateHead(c)
  BY <1>4 DEF TruncateHead
<1>5. CASE FillHead(c)
  BY <1>5 DEF FillHead
<1>6. CASE UseKey(c)
  BY <1>6 DEF UseKey
<1>7. CASE GenerateKey(c)
  BY <1>7 DEF GenerateKey
<1>8. CASE TruncateKey(c)
  BY <1>8 DEF TruncateKey
<1>9. CASE FillKey(c)
  BY <1>9 DEF FillKey
<1>10. CASE SignHead(c)
  BY <1>10 DEF SignHead, HeadResolves
<1>11. CASE Deploy(c)
  BY <1>11 DEF Deploy, HeadResolves
<1>12. CASE LoadToSign(c)
  <2> DEFINE r == revs[id[c]]
             s == [r EXCEPT !.bundle = Bundle(r.id, r.content, signer[c])]
  <2>1. CASE r \in Revisions
    <3>1. id[c] \in RevIds /\ signer[c] \in Keys
      BY <1>12 DEF LoadToSign
    <3>2. WellFormed(r) /\ r.id = id[c]
      BY <2>1, <3>1 DEF RevsInv
    <3>3. s \in Revisions /\ s.id = r.id /\ WellFormed(s)
      BY <2>1, <3>1, <3>2, SignedWellFormed
    <3>4. rev'[c] = s /\ pc'[c] = "rev.trunc" /\ job'[c] = "sign" /\ id' = id
      BY <1>12, <2>1 DEF LoadToSign
    <3> QED
      BY <3>1, <3>2, <3>3, <3>4
  <2>2. CASE r \notin Revisions
    BY <1>12, <2>2 DEF LoadToSign
  <2> QED
    BY <2>1, <2>2
<1>13. CASE LoadToDeploy(c)
  BY <1>13 DEF LoadToDeploy, Deployable, RevsInv
<1>14. CASE TruncateDeployed(c)
  BY <1>14 DEF TruncateDeployed
<1>15. CASE FillDeployed(c)
  BY <1>15 DEF FillDeployed
<1>16. CASE BreakOff(c)
  BY <1>16 DEF BreakOff
<1> QED
  BY <1>1, <1>2, <1>3, <1>4, <1>5, <1>6, <1>7, <1>8,
     <1>9, <1>10, <1>11, <1>12, <1>13, <1>14, <1>15, <1>16 DEF Command

\* And the other commands still hold what theirs need.
LEMMA JobsPreserved ==
    ASSUME TypeOK, StoreInv, NEW c \in Clis, Command(c)
    PROVE  \A d \in Clis : JobInv(d)'
<1> SUFFICES ASSUME NEW d \in Clis
             PROVE  JobInv(d)'
  OBVIOUS
<1>1. CASE d = c
  BY <1>1, OwnJob
<1>2. CASE d # c
  <2>1. Mine(d)' = Mine(d)
    BY <1>2, Frame
  <2>2. JobInv(d)
    BY DEF StoreInv
  <2> QED
    BY <2>1, <2>2, RevsPreserved DEF Mine, JobInv
<1> QED
  BY <1>1, <1>2

-----------------------------------------------------------------------------
\* The inductive invariant of the policy directory.
IInv == TypeOK /\ StoreInv

\* In an empty directory with no command running the invariant holds.
LEMMA Initially == Init => IInv
<1> SUFFICES ASSUME Init
             PROVE  IInv
  OBVIOUS
<1>1. TypeOK
  <2>1. mishaps \in 0..MaxMishaps /\ clock \in Seconds
    BY StoreConstantsOK DEF Init, Seconds
  <2>2. overlapped \in BOOLEAN
    BY DEF Init
  <2>3. /\ path \in [Clis -> Paths] /\ keyfile \in [Paths -> Keys \cup {Absent, Empty}]
        /\ revs \in [RevIds -> Revisions \cup {Absent, Empty, Garbled}]
    BY StoreConstantsOK DEF Init
  <2> QED
    BY <2>1, <2>2, <2>3 DEF Init, TypeOK, PCs, Jobs
<1>2. StoreInv
  BY StoreConstantsOK DEF Init, StoreInv, HeadResolves, RevsInv, DeployInv, JobInv
<1> QED
  BY <1>1, <1>2 DEF IInv

\* Every step keeps it: a command's, an edit of active.dsl, a second passing.
LEMMA Stepwise == IInv /\ [Next]_vars => IInv'
<1> SUFFICES ASSUME TypeOK, StoreInv, [Next]_vars
             PROVE  IInv'
  BY DEF IInv
<1>1. ASSUME NEW c \in Clis, Command(c)
      PROVE  IInv'
  BY <1>1, TypePreserved, RevsPreserved, HeadPreserved, DeployPreserved, JobsPreserved
  DEF IInv, StoreInv
<1>2. CASE EditActive
  <2>1. TypeOK'
    BY <1>2 DEF EditActive, TypeOK
  <2>2. StoreInv'
    BY <1>2 DEF EditActive, StoreInv, HeadResolves, RevsInv, DeployInv, JobInv
  <2> QED
    BY <2>1, <2>2 DEF IInv
<1>3. CASE Tick
  <2>1. TypeOK'
    BY <1>3, StoreConstantsOK DEF Tick, TypeOK, Seconds
  <2>2. StoreInv'
    BY <1>3 DEF Tick, StoreInv, HeadResolves, RevsInv, DeployInv, JobInv
  <2> QED
    BY <2>1, <2>2 DEF IInv
<1>4. CASE UNCHANGED vars
  <2>1. TypeOK'
    BY <1>4 DEF vars, TypeOK
  <2>2. StoreInv'
    BY <1>4 DEF vars, StoreInv, HeadResolves, RevsInv, DeployInv, JobInv
  <2> QED
    BY <2>1, <2>2 DEF IInv
<1> QED
  BY <1>1, <1>2, <1>3, <1>4 DEF Next

\* The directory keeps its invariant for every number of commands, texts, keys
\* and seconds, and for every number of commands that break off.
THEOREM StoreInvariance == Spec => [](TypeOK /\ StoreInv)
<1>1. IInv /\ [Next]_vars => IInv'
  BY Stepwise
<1>2. IInv => TypeOK /\ StoreInv
  BY DEF IInv
<1> QED
  BY Initially, <1>1, <1>2, PTL DEF Spec

\* HEAD never names a revision whose file was never written (store.rs:92-93).
THEOREM HeadAlwaysResolves == Spec => []HeadResolves
<1>1. TypeOK /\ StoreInv => HeadResolves
  BY DEF StoreInv
<1> QED
  BY StoreInvariance, <1>1, PTL

\* deploy_head only ever installs a revision whose signature covers the very
\* text the proxy parses (store.rs:109-124, sign.rs:85-103).
THEOREM DeployedAlwaysSigned == Spec => []DeployedIsSigned
<1>1. TypeOK /\ StoreInv => DeployedIsSigned
  BY DEF StoreInv, DeployInv, WellFormed, DeployedIsSigned
<1> QED
  BY StoreInvariance, <1>1, PTL

\* Which file a command leaves truncated, and what it fills one with, if it does
\* not break off.
LEMMA Truncations ==
    ASSUME TypeOK, StoreInv, NEW c \in Clis, Command(c), ~BreakOff(c)
    PROVE  /\ mishaps' = mishaps
           /\ \/ head' = head /\ pc[c] # "head.fill"
              \/ head' = Empty /\ pc'[c] = "head.fill"
              \/ head' \in RevIds
           /\ \/ keyfile' = keyfile /\ pc[c] # "key.fill"
              \/ /\ keyfile' = [keyfile EXCEPT ![path[c]] = Empty]
                 /\ pc'[c] = "key.fill" /\ path' = path
              \/ \E k \in Keys : keyfile' = [keyfile EXCEPT ![path[c]] = k]
           /\ \/ deployed' = deployed /\ pc[c] # "deploy.fill"
              \/ deployed' = Empty /\ pc'[c] = "deploy.fill"
              \/ deployed' \in Revisions \cup {Garbled}
           /\ \/ revs' = revs /\ pc[c] # "rev.fill"
              \/ revs' = [revs EXCEPT ![id[c]] = Empty] /\ pc'[c] = "rev.fill" /\ id' = id
              \/ \E f \in Revisions \cup {Garbled} : revs' = [revs EXCEPT ![id[c]] = f]
<1>j. JobInv(c)
  BY DEF StoreInv
<1> USE DEF TypeOK, Move, Stop
<1>1. CASE Commit(c)
  BY <1>1 DEF Commit
<1>2. CASE TruncateRevision(c)
  BY <1>2 DEF TruncateRevision
<1>3. CASE FillRevision(c)
  <2>1. rev[c] \in Revisions
    BY <1>3, <1>j DEF FillRevision, JobInv
  <2>2. \E f \in Revisions \cup {Garbled} : revs' = [revs EXCEPT ![id[c]] = f]
    BY <1>3, <2>1 DEF FillRevision, Filled
  <2>3. UNCHANGED <<head, keyfile, deployed, mishaps>> /\ pc[c] = "rev.fill"
    BY <1>3 DEF FillRevision
  <2> QED
    BY <2>2, <2>3
<1>4. CASE TruncateHead(c)
  BY <1>4 DEF TruncateHead
<1>5. CASE FillHead(c)
  BY <1>5, <1>j DEF FillHead, JobInv
<1>6. CASE UseKey(c)
  BY <1>6 DEF UseKey
<1>7. CASE GenerateKey(c)
  BY <1>7 DEF GenerateKey
<1>8. CASE TruncateKey(c)
  BY <1>8 DEF TruncateKey
<1>9. CASE FillKey(c)
  BY <1>9, <1>j DEF FillKey, JobInv
<1>10. CASE SignHead(c)
  BY <1>10 DEF SignHead
<1>11. CASE Deploy(c)
  BY <1>11 DEF Deploy
<1>12. CASE LoadToSign(c)
  BY <1>12 DEF LoadToSign
<1>13. CASE LoadToDeploy(c)
  BY <1>13 DEF LoadToDeploy
<1>14. CASE TruncateDeployed(c)
  BY <1>14 DEF TruncateDeployed
<1>15. CASE FillDeployed(c)
  BY <1>15, <1>j DEF FillDeployed, JobInv, Filled
<1> QED
  BY <1>1, <1>2, <1>3, <1>4, <1>5, <1>6, <1>7, <1>8,
     <1>9, <1>10, <1>11, <1>12, <1>13, <1>14, <1>15 DEF Command

\* A file that is truncated has its writer, as long as no command broke off.
Writers ==
    mishaps = 0 =>
        /\ head = Empty => Filling("head.fill") # {}
        /\ \A p \in Paths : keyfile[p] = Empty => KeyAt(p) # {}
        /\ deployed = Empty => Filling("deploy.fill") # {}
        /\ \A i \in RevIds : revs[i] = Empty => Writing(i) # {}

\* It needs no more than the invariant of the directory.
LEMMA WritersKept == IInv /\ Writers /\ [Next]_vars => Writers'
<1> SUFFICES ASSUME TypeOK, StoreInv, Writers, [Next]_vars, mishaps' = 0
             PROVE  Writers'
  BY DEF IInv, Writers
<1>k. /\ Empty \notin RevIds /\ Empty \notin Keys /\ Empty \notin Revisions \cup {Garbled}
  BY StoreConstantsOK
<1>1. ASSUME NEW c \in Clis, Command(c)
      PROVE  Writers'
  <2>0. /\ ~BreakOff(c) /\ mishaps = 0
        /\ \A d \in Clis : d # c => pc'[d] = pc[d] /\ id'[d] = id[d] /\ path'[d] = path[d]
    <3>1. ~BreakOff(c)
      BY DEF BreakOff, TypeOK
    <3> QED
      BY <1>1, <3>1, Frame, Truncations DEF Mine
  <2>1. head' = Empty => \E d \in Clis : pc'[d] = "head.fill"
    BY <1>1, <1>k, <2>0, Truncations DEF Writers, Filling
  <2>2. ASSUME NEW p \in Paths, keyfile'[p] = Empty
        PROVE  \E d \in Clis : pc'[d] = "key.fill" /\ path'[d] = p
    <3>1. CASE keyfile' = keyfile /\ pc[c] # "key.fill"
      BY <2>0, <2>2, <3>1 DEF Writers, KeyAt, Filling
    <3>2. CASE keyfile' = [keyfile EXCEPT ![path[c]] = Empty] /\ pc'[c] = "key.fill" /\ path' = path
      BY <2>0, <2>2, <3>2 DEF Writers, KeyAt, Filling, TypeOK
    <3>3. ASSUME NEW k \in Keys, keyfile' = [keyfile EXCEPT ![path[c]] = k]
          PROVE  \E d \in Clis : pc'[d] = "key.fill" /\ path'[d] = p
      <4>1. p # path[c] /\ keyfile[p] = Empty
        BY <1>k, <2>2, <3>3 DEF TypeOK
      <4> QED
        BY <2>0, <4>1 DEF Writers, KeyAt, Filling
    <3> QED
      BY <1>1, <2>0, <3>1, <3>2, <3>3, Truncations
  <2>3. deployed' = Empty => \E d \in Clis : pc'[d] = "deploy.fill"
    BY <1>1, <1>k, <2>0, Truncations DEF Writers, Filling
  <2>4. ASSUME NEW i \in RevIds, revs'[i] = Empty
        PROVE  \E d \in Clis : pc'[d] = "rev.fill" /\ id'[d] = i
    <3>1. CASE revs' = revs /\ pc[c] # "rev.fill"
      BY <2>0, <2>4, <3>1 DEF Writers, Writing, Filling
    <3>2. CASE revs' = [revs EXCEPT ![id[c]] = Empty] /\ pc'[c] = "rev.fill" /\ id' = id
      BY <2>0, <2>4, <3>2 DEF Writers, Writing, Filling, TypeOK
    <3>3. ASSUME NEW f \in Revisions \cup {Garbled}, revs' = [revs EXCEPT ![id[c]] = f]
          PROVE  \E d \in Clis : pc'[d] = "rev.fill" /\ id'[d] = i
      <4>1. i # id[c] /\ revs[i] = Empty
        BY <1>k, <2>4, <3>3 DEF TypeOK
      <4> QED
        BY <2>0, <4>1 DEF Writers, Writing, Filling
    <3> QED
      BY <1>1, <2>0, <3>1, <3>2, <3>3, Truncations
  <2> QED
    BY <2>1, <2>2, <2>3, <2>4 DEF Writers, Filling, KeyAt, Writing
<1>2. CASE EditActive \/ Tick \/ UNCHANGED vars
  <2>1. UNCHANGED <<head, revs, deployed, keyfile, mishaps, pc, id, path>>
    BY <1>2 DEF EditActive, Tick, vars
  <2> QED
    BY <2>1 DEF Writers, Filling, KeyAt, Writing
<1> QED
  BY <1>1, <1>2 DEF Next

\* Until two commands are in one file, a command that is about to fill a file is
\* the only one, and finds it truncated.
FillInv ==
    ~overlapped =>
        /\ \A c \in Filling("rev.fill") : revs[id[c]] = Empty /\ Writing(id[c]) = {c}
        /\ \A c \in Filling("deploy.fill") : deployed = Empty /\ Filling("deploy.fill") = {c}
        /\ deployed # Garbled /\ \A i \in RevIds : revs[i] # Garbled

\* What a command does to the files of JSON while nobody else is in them.
LEMMA FillSteps ==
    ASSUME TypeOK, StoreInv, FillInv, NEW c \in Clis, Command(c), ~overlapped'
    PROVE  /\ ~overlapped
           /\ \/ revs' = revs /\ pc'[c] # "rev.fill"
              \/ /\ revs' = [revs EXCEPT ![id[c]] = Empty]
                 /\ pc'[c] = "rev.fill" /\ id' = id /\ Writing(id[c]) = {}
              \/ /\ revs' = [revs EXCEPT ![id[c]] = rev[c]]
                 /\ pc[c] = "rev.fill" /\ pc'[c] # "rev.fill"
           /\ \/ deployed' = deployed /\ pc'[c] # "deploy.fill"
              \/ /\ deployed' = Empty
                 /\ pc'[c] = "deploy.fill" /\ Filling("deploy.fill") = {}
              \/ /\ deployed' = rev[c]
                 /\ pc[c] = "deploy.fill" /\ pc'[c] # "deploy.fill"
<1> USE DEF TypeOK, Move, Stop, Truncates
<1>1. CASE Commit(c)
  BY <1>1 DEF Commit
<1>2. CASE TruncateRevision(c)
  BY <1>2 DEF TruncateRevision
<1>3. CASE FillRevision(c)
  <2>1. ~overlapped /\ c \in Filling("rev.fill")
    BY <1>3 DEF FillRevision, Filling
  <2>2. revs[id[c]] = Empty
    BY <2>1 DEF FillInv
  <2> QED
    BY <1>3, <2>1, <2>2 DEF FillRevision, Filled
<1>4. CASE TruncateHead(c)
  BY <1>4 DEF TruncateHead
<1>5. CASE FillHead(c)
  BY <1>5 DEF FillHead
<1>6. CASE UseKey(c)
  BY <1>6 DEF UseKey
<1>7. CASE GenerateKey(c)
  BY <1>7 DEF GenerateKey
<1>8. CASE TruncateKey(c)
  BY <1>8 DEF TruncateKey
<1>9. CASE FillKey(c)
  BY <1>9 DEF FillKey
<1>10. CASE SignHead(c)
  BY <1>10 DEF SignHead
<1>11. CASE Deploy(c)
  BY <1>11 DEF Deploy
<1>12. CASE LoadToSign(c)
  BY <1>12 DEF LoadToSign
<1>13. CASE LoadToDeploy(c)
  BY <1>13 DEF LoadToDeploy
<1>14. CASE TruncateDeployed(c)
  BY <1>14 DEF TruncateDeployed
<1>15. CASE FillDeployed(c)
  <2>1. ~overlapped /\ c \in Filling("deploy.fill")
    BY <1>15 DEF FillDeployed, Filling
  <2>2. deployed = Empty
    BY <2>1 DEF FillInv
  <2> QED
    BY <1>15, <2>1, <2>2 DEF FillDeployed, Filled
<1>16. CASE BreakOff(c)
  <2>1. ~overlapped
    BY <1>16 DEF BreakOff
  <2>2. /\ pc[c] = "rev.fill" => revs[id[c]] = Empty
        /\ pc[c] = "deploy.fill" => deployed = Empty
    BY <2>1 DEF FillInv, Filling
  <2> QED
    BY <1>16, <2>1, <2>2 DEF BreakOff, Mixed
<1> QED
  BY <1>1, <1>2, <1>3, <1>4, <1>5, <1>6, <1>7, <1>8,
     <1>9, <1>10, <1>11, <1>12, <1>13, <1>14, <1>15, <1>16 DEF Command

\* So nothing is mixed.
LEMMA FillKept == IInv /\ FillInv /\ [Next]_vars => FillInv'
<1> SUFFICES ASSUME TypeOK, StoreInv, FillInv, [Next]_vars, ~overlapped'
             PROVE  FillInv'
  BY DEF IInv, FillInv
<1>k. Garbled # Empty /\ Garbled \notin Revisions
  BY StoreConstantsOK
<1>1. ASSUME NEW c \in Clis, Command(c)
      PROVE  FillInv'
  <2>0. /\ ~overlapped
        /\ \A d \in Clis : d # c => pc'[d] = pc[d] /\ id'[d] = id[d]
        /\ pc[c] \in {"rev.fill", "deploy.fill"} => rev[c] \in Revisions
        /\ deployed # Garbled /\ \A i \in RevIds : revs[i] # Garbled
    BY <1>1, Frame, FillSteps DEF Mine, StoreInv, JobInv, FillInv
  <2>1. ASSUME NEW d \in Clis, pc'[d] = "rev.fill"
        PROVE  /\ revs'[id'[d]] = Empty
               /\ \A e \in Clis : pc'[e] = "rev.fill" /\ id'[e] = id'[d] => e = d
    <3>1. CASE d = c
      <4>1. /\ revs' = [revs EXCEPT ![id[c]] = Empty] /\ id' = id
            /\ Writing(id[c]) = {} /\ id[c] \in RevIds
        <5>1. JobInv(c)' /\ id' = id => id[c] \in RevIds
          BY <2>1, <3>1 DEF JobInv
        <5> QED
          BY <1>1, <2>1, <3>1, <5>1, FillSteps, JobsPreserved
      <4>2. revs'[id'[d]] = Empty
        BY <3>1, <4>1 DEF TypeOK
      <4>3. \A e \in Clis : pc[e] = "rev.fill" => id[e] # id[c]
        BY <4>1 DEF Writing, Filling
      <4> QED
        BY <2>0, <3>1, <4>1, <4>2, <4>3
    <3>2. CASE d # c
      <4>1. /\ revs[id[d]] = Empty /\ id'[d] = id[d] /\ id[d] \in RevIds
            /\ pc[d] = "rev.fill" /\ Writing(id[d]) = {d}
        BY <2>0, <2>1, <3>2 DEF FillInv, Filling, StoreInv, JobInv
      <4>2. \A e \in Clis : pc[e] = "rev.fill" /\ id[e] = id[d] => e = d
        BY <4>1 DEF Writing, Filling
      <4>3. CASE pc'[c] # "rev.fill"
        <5>1. revs' = revs \/ (revs' = [revs EXCEPT ![id[c]] = rev[c]] /\ id[c] # id[d])
          BY <1>1, <3>2, <4>2, <4>3, FillSteps
        <5>2. revs'[id[d]] = Empty
          BY <4>1, <5>1 DEF TypeOK
        <5> QED
          BY <2>0, <4>1, <4>2, <4>3, <5>2
      <4>4. CASE pc'[c] = "rev.fill"
        <5>1. /\ revs' = [revs EXCEPT ![id[c]] = Empty]
              /\ id' = id /\ Writing(id[c]) = {}
          BY <1>1, <4>4, FillSteps
        <5>2. id[c] # id[d]
          BY <4>1, <5>1
        <5>3. revs'[id[d]] = Empty
          BY <4>1, <5>1, <5>2 DEF TypeOK
        <5> QED
          BY <2>0, <4>1, <4>2, <4>4, <5>1, <5>2, <5>3
      <4> QED
        BY <4>3, <4>4
    <3> QED
      BY <3>1, <3>2
  <2>2. ASSUME NEW d \in Clis, pc'[d] = "deploy.fill"
        PROVE  deployed' = Empty /\ Filling("deploy.fill")' = {d}
    <3>1. CASE d = c
      <4>1. deployed' = Empty /\ Filling("deploy.fill") = {}
        BY <1>1, <2>2, <3>1, FillSteps
      <4> QED
        BY <2>0, <2>2, <3>1, <4>1 DEF Filling
    <3>2. CASE d # c
      <4>1. deployed = Empty /\ Filling("deploy.fill") = {d}
        BY <2>0, <2>2, <3>2 DEF FillInv, Filling
      <4>2. pc'[c] # "deploy.fill" /\ deployed' = Empty
        BY <1>1, <3>2, <4>1, FillSteps DEF Filling
      <4> QED
        BY <2>0, <2>2, <4>1, <4>2 DEF Filling
    <3> QED
      BY <3>1, <3>2
  <2>3. deployed' # Garbled /\ \A i \in RevIds : revs'[i] # Garbled
    BY <1>1, <1>k, <2>0, FillSteps DEF TypeOK
  <2>4. ASSUME NEW d \in Filling("rev.fill")'
        PROVE  revs'[id'[d]] = Empty /\ Writing(id[d])' = {d}
    <3>1. d \in Clis /\ pc'[d] = "rev.fill"
      BY DEF Filling
    <3> QED
      BY <2>1, <3>1 DEF Writing, Filling
  <2>5. ASSUME NEW d \in Filling("deploy.fill")'
        PROVE  deployed' = Empty /\ Filling("deploy.fill")' = {d}
    BY <2>2 DEF Filling
  <2> QED
    BY <2>3, <2>4, <2>5 DEF FillInv
<1>2. CASE EditActive \/ Tick \/ UNCHANGED vars
  <2>1. UNCHANGED <<revs, deployed, pc, id, overlapped>>
    BY <1>2 DEF EditActive, Tick, vars
  <2> QED
    BY <2>1 DEF FillInv, Filling, Writing
<1> QED
  BY <1>1, <1>2 DEF Next

\* A file is truncated only while a command is about to fill it, unless a command
\* was killed or met an error, and only two commands in one file mix two texts
\* (store.rs:92-93, 105, 119, main.rs:494).
THEOREM TornOnlyByMishaps == Spec => []WholeUnlessBroken
<1>1. Init => Writers /\ FillInv
  BY StoreConstantsOK DEF Init, Writers, FillInv, Filling
<1>2. Writers /\ FillInv => WholeUnlessBroken
  BY DEF Writers, FillInv, WholeUnlessBroken
<1> QED
  BY Initially, Stepwise, <1>1, <1>2, WritersKept, FillKept, PTL DEF Spec

-----------------------------------------------------------------------------
(***************************************************************************)
(* The proxy beside the commands.                                          *)
(***************************************************************************)
\* Every signature in a file or in the hands of a command is by a drawn key.
Known(f, keys) == f \in Revisions /\ f.bundle # NoBundle => f.bundle.key \in keys

KeysInv ==
    /\ \A p \in Paths : keyfile[p] \in Keys => keyfile[p] \in drawn
    /\ \A c \in Clis : (signer[c] \in Keys => signer[c] \in drawn) /\ Known(rev[c], drawn)
    /\ \A i \in RevIds : Known(revs[i], drawn)
    /\ Known(deployed, drawn)

\* What the proxy loaded is a signed revision; without one it goes on only
\* where no signature is required.
SignedAsItStands ==
    /\ hot.id \in RevIds
    /\ hot.content = hot.id[1]
    /\ Signs(hot.bundle, hot)
    /\ hot.bundle.key \in drawn

HotInv ==
    /\ stage = "loaded" => SignedAsItStands
    /\ stage = "serving" /\ strict => SignedAsItStands
    /\ stage \in {"down", "fallback"} => ~strict

-----------------------------------------------------------------------------
\* Keys are only ever added to those drawn.
LEMMA DrawnGrows ==
    ASSUME NEW c \in Clis, Command(c)
    PROVE  drawn \subseteq drawn'
<1>1. CASE Commit(c)
  BY <1>1 DEF Commit
<1>2. CASE TruncateRevision(c)
  BY <1>2 DEF TruncateRevision
<1>3. CASE FillRevision(c)
  BY <1>3 DEF FillRevision
<1>4. CASE TruncateHead(c)
  BY <1>4 DEF TruncateHead
<1>5. CASE FillHead(c)
  BY <1>5 DEF FillHead
<1>6. CASE UseKey(c)
  BY <1>6 DEF UseKey
<1>7. CASE GenerateKey(c)
  BY <1>7 DEF GenerateKey
<1>8. CASE TruncateKey(c)
  BY <1>8 DEF TruncateKey
<1>9. CASE FillKey(c)
  BY <1>9 DEF FillKey
<1>10. CASE SignHead(c)
  BY <1>10 DEF SignHead
<1>11. CASE Deploy(c)
  BY <1>11 DEF Deploy
<1>12. CASE LoadToSign(c)
  BY <1>12 DEF LoadToSign
<1>13. CASE LoadToDeploy(c)
  BY <1>13 DEF LoadToDeploy
<1>14. CASE TruncateDeployed(c)
  BY <1>14 DEF TruncateDeployed
<1>15. CASE FillDeployed(c)
  BY <1>15 DEF FillDeployed
<1>16. CASE BreakOff(c)
  BY <1>16 DEF BreakOff
<1> QED
  BY <1>1, <1>2, <1>3, <1>4, <1>5, <1>6, <1>7, <1>8,
     <1>9, <1>10, <1>11, <1>12, <1>13, <1>14, <1>15, <1>16 DEF Command

\* A command signs with a drawn key and copies signatures by drawn keys.
LEMMA KeysPreserved ==
    ASSUME TypeOK, StoreInv, KeysInv, NEW c \in Clis, Command(c)
    PROVE  KeysInv'
<1>d. drawn \subseteq drawn'
  BY DrawnGrows
<1>j. JobInv(c)
  BY DEF StoreInv
<1>k. /\ {Empty, Garbled, Absent} \cap Revisions = {} /\ {Empty, Absent} \cap Keys = {}
      /\ NoRev.bundle = NoBundle /\ NoSigner \notin Keys
  BY StoreConstantsOK DEF NoRev
<1>f. \A f : Known(f, drawn) => Known(f, drawn')
  BY <1>d DEF Known
<1>n. Known(Empty, drawn') /\ Known(Garbled, drawn') /\ Known(NoRev, drawn')
  BY <1>k DEF Known
<1> USE <1>d, <1>k, <1>f, <1>n DEF TypeOK, KeysInv, Move, Stop
<1>1. CASE Commit(c)
  <2>1. Known([id |-> <<active, clock>>, content |-> active, bundle |-> NoBundle], drawn')
    BY DEF Known
  <2> QED
    BY <1>1, <2>1 DEF Commit
<1>2. CASE TruncateRevision(c)
  BY <1>2 DEF TruncateRevision
<1>3. CASE FillRevision(c)
  BY <1>3 DEF FillRevision, Filled
<1>4. CASE TruncateHead(c)
  BY <1>4 DEF TruncateHead
<1>5. CASE FillHead(c)
  BY <1>5 DEF FillHead
<1>6. CASE UseKey(c)
  BY <1>6 DEF UseKey
<1>7. CASE GenerateKey(c)
  BY <1>7 DEF GenerateKey
<1>8. CASE TruncateKey(c)
  BY <1>8 DEF TruncateKey
<1>9. CASE FillKey(c)
  BY <1>9, <1>j DEF FillKey, JobInv
<1>10. CASE SignHead(c)
  BY <1>10 DEF SignHead
<1>11. CASE Deploy(c)
  BY <1>11 DEF Deploy
<1>12. CASE LoadToSign(c)
  <2> DEFINE r == revs[id[c]]
             s == [r EXCEPT !.bundle = Bundle(r.id, r.content, signer[c])]
  <2>1. CASE r \in Revisions
    <3>1. signer[c] \in drawn
      BY <1>12, <1>j DEF LoadToSign, JobInv
    <3>2. s.bundle.key = signer[c]
      BY <2>1 DEF Bundle, Revisions
    <3>3. rev' = [rev EXCEPT ![c] = s] /\ UNCHANGED <<files, drawn, signer>>
      BY <1>12, <2>1 DEF LoadToSign
    <3>4. Known(s, drawn')
      BY <3>1, <3>2, <3>3 DEF Known
    <3>5. \A d \in Clis : rev'[d] = s \/ rev'[d] = rev[d]
      BY <3>3
    <3> HIDE DEF s
    <3> QED
      BY <3>3, <3>4, <3>5
  <2>2. CASE r \notin Revisions
    BY <1>12, <2>2 DEF LoadToSign
  <2> QED
    BY <2>1, <2>2
<1>13. CASE LoadToDeploy(c)
  BY <1>13, <1>j DEF LoadToDeploy, Deployable, JobInv
<1>14. CASE TruncateDeployed(c)
  BY <1>14 DEF TruncateDeployed
<1>15. CASE FillDeployed(c)
  BY <1>15 DEF FillDeployed, Filled
<1>16. CASE BreakOff(c)
  BY <1>16 DEF BreakOff, Mixed
<1> QED
  BY <1>1, <1>2, <1>3, <1>4, <1>5, <1>6, <1>7, <1>8,
     <1>9, <1>10, <1>11, <1>12, <1>13, <1>14, <1>15, <1>16 DEF Command

\* The proxy takes what is deployed, and keeps it as it took it.
LEMMA HotPreserved ==
    ASSUME StoreInv, KeysInv, HotInv, Start \/ StopEngine
    PROVE  HotInv'
<1> USE DEF HotInv, Serve, Exit, SignedAsItStands, Signs
<1>1. CASE LoadDeployed
  <2>1. deployed \in Revisions /\ deployed.id \in RevIds
    BY <1>1 DEF LoadDeployed, Revisions
  <2>2. WellFormed(deployed) /\ deployed.bundle # NoBundle /\ deployed.bundle.key \in drawn
    BY <2>1 DEF StoreInv, DeployInv, KeysInv, Known
  <2> QED
    BY <1>1, <2>1, <2>2 DEF LoadDeployed, WellFormed, vars
<1>2. CASE FallBack
  BY <1>2 DEF FallBack
<1>3. CASE ServeActive
  BY <1>3 DEF ServeActive
<1>4. CASE VerifyBundle
  <2>1. CASE HasSignature
    <3> DEFINE b == [hot EXCEPT !.key = KeyRead]
    <3>1. hot' = b /\ stage' = "serving" /\ drawn' = drawn
      BY <1>4, <2>1 DEF VerifyBundle, vars
    <3>2. b.id = hot.id /\ b.content = hot.content /\ b.bundle = hot.bundle
      OBVIOUS
    <3>3. SignedAsItStands
      BY <1>4 DEF VerifyBundle
    <3> HIDE DEF b
    <3> QED
      BY <3>1, <3>2, <3>3
  <2>2. CASE ~HasSignature
    BY <1>4, <2>2 DEF VerifyBundle
  <2> QED
    BY <2>1, <2>2
<1>5. CASE SkipVerification
  BY <1>5 DEF SkipVerification, vars
<1>6. CASE StopEngine
  BY <1>6 DEF StopEngine
<1> QED
  BY <1>1, <1>2, <1>3, <1>4, <1>5, <1>6 DEF Start

-----------------------------------------------------------------------------
\* The inductive invariant of the proxy beside the commands.
EngineIInv == IInv /\ KeysInv /\ HotInv

\* It holds in an empty directory with the proxy down.
LEMMA EngineInitially == EngineInit => EngineIInv
<1> SUFFICES ASSUME EngineInit
             PROVE  EngineIInv
  OBVIOUS
<1>1. IInv
  BY Initially DEF EngineInit
<1>2. KeysInv /\ HotInv
  BY StoreConstantsOK DEF EngineInit, Init, KeysInv, Known, HotInv, NoRev
<1> QED
  BY <1>1, <1>2 DEF EngineIInv

\* Commands keep it without looking at the proxy, the proxy without writing.
LEMMA EngineStepwise == EngineIInv /\ [EngineNext]_engineVars => EngineIInv'
<1> SUFFICES ASSUME IInv, KeysInv, HotInv, [EngineNext]_engineVars
             PROVE  IInv' /\ KeysInv' /\ HotInv'
  BY DEF EngineIInv
<1>1. IInv'
  BY Stepwise DEF EngineNext, engineVars, Start, LoadDeployed, FallBack, ServeActive,
                  VerifyBundle, SkipVerification, StopEngine
<1>2. ASSUME NEW c \in Clis, Command(c), UNCHANGED engine
      PROVE  KeysInv' /\ HotInv'
  <2>1. drawn \subseteq drawn'
    BY <1>2, DrawnGrows
  <2>2. KeysInv'
    BY <1>2, KeysPreserved DEF IInv
  <2> QED
    BY <1>2, <2>1, <2>2 DEF engine, HotInv, SignedAsItStands
<1>3. CASE (EditActive \/ Tick) /\ UNCHANGED engine
  BY <1>1, <1>3 DEF EditActive, Tick, engine, KeysInv, HotInv, SignedAsItStands
<1>4. CASE Start \/ StopEngine
  <2>1. UNCHANGED vars
    BY <1>4 DEF Start, LoadDeployed, FallBack, ServeActive, VerifyBundle, SkipVerification,
                StopEngine
  <2>2. HotInv'
    BY <1>4, HotPreserved DEF IInv
  <2> QED
    BY <1>1, <2>1, <2>2 DEF vars, KeysInv
<1>5. CASE UNCHANGED engineVars
  BY <1>1, <1>5 DEF engineVars, vars, engine, KeysInv, HotInv, SignedAsItStands
<1> QED
  BY <1>1, <1>2, <1>3, <1>4, <1>5 DEF EngineNext, Next

\* Where a signature is required, the proxy serves what was committed under the
\* name it shows, with a signature over that name and text by a drawn key
\* (engine.rs:25-119, store.rs:74-157).
THEOREM OnlySignedServed == EngineSpec => []ServesWhatWasSigned
<1>1. EngineIInv => ServesWhatWasSigned
  BY DEF EngineIInv, HotInv, SignedAsItStands, ServesWhatWasSigned
<1> QED
  BY EngineInitially, EngineStepwise, <1>1, PTL DEF EngineSpec

\* What the proxy holds is a text validate_dsl accepts, from the moment it is
\* loaded.
ValidInv == stage \in {"loaded", "serving"} => hot.content \in Contents \ Invalid

\* A deployed revision holds the text it is named by, and only an accepted text
\* names one; the fallback looks at the text itself.
LEMMA ValidPreserved == EngineIInv /\ ValidInv /\ [EngineNext]_engineVars => ValidInv'
<1> SUFFICES ASSUME EngineIInv, ValidInv, [EngineNext]_engineVars
             PROVE  ValidInv'
  OBVIOUS
<1> USE DEF ValidInv, Serve, Exit
<1>1. CASE LoadDeployed
  <2>1. deployed \in Revisions /\ WellFormed(deployed) /\ hot'.content = deployed.content
    BY <1>1 DEF LoadDeployed, EngineIInv, IInv, StoreInv, DeployInv
  <2>2. deployed.id \in RevIds /\ deployed.content = deployed.id[1]
    BY <2>1 DEF Revisions, WellFormed
  <2> QED
    BY <2>1, <2>2 DEF RevIds
<1>2. CASE FallBack \/ SkipVerification \/ StopEngine
  BY <1>2 DEF FallBack, SkipVerification, StopEngine
<1>3. CASE ServeActive
  BY <1>3 DEF ServeActive
<1>4. CASE VerifyBundle
  <2>1. CASE HasSignature
    <3> DEFINE b == [hot EXCEPT !.key = KeyRead]
    <3>1. b.content = hot.content
      OBVIOUS
    <3>2. stage = "loaded" /\ hot' = b
      BY <1>4, <2>1 DEF VerifyBundle
    <3> HIDE DEF b
    <3> QED
      BY <3>1, <3>2
  <2>2. CASE ~HasSignature
    BY <1>4, <2>2 DEF VerifyBundle
  <2> QED
    BY <2>1, <2>2
<1>5. CASE UNCHANGED engine
  BY <1>5 DEF engine
<1> QED
  BY <1>1, <1>2, <1>3, <1>4, <1>5 DEF EngineNext, Start, engineVars

\* A proxy never serves a text that validate_dsl refuses, with a signature or
\* without one (engine.rs:25-119, store.rs:74-157).
THEOREM OnlyValidTextServed == EngineSpec => []ServesValidText
<1>1. EngineInit => ValidInv
  BY DEF EngineInit, ValidInv
<1>2. ValidInv => ServesValidText
  BY DEF ValidInv, ServesValidText
<1> QED
  BY EngineInitially, EngineStepwise, <1>1, ValidPreserved, <1>2, PTL DEF EngineSpec

-----------------------------------------------------------------------------
(***************************************************************************)
(* One command at a time.                                                  *)
(***************************************************************************)
\* No two commands are there at the same time.
Alone == \A c, d \in Clis : c = d

\* The key of the one key file.
TheKey == keyfile[DefaultPath]

\* Every signature there is, is by that key.
By(f, k) == f \in Revisions /\ f.bundle # NoBundle => f.bundle.key = k

OneKeyInv ==
    /\ \A i \in RevIds : By(revs[i], TheKey)
    /\ By(deployed, TheKey)
    /\ \A c \in Clis : path[c] = DefaultPath
    /\ \A c \in Clis :
          /\ By(rev[c], TheKey)
          /\ pc[c] = "sign.head" \/ (pc[c] = "load" /\ job[c] = "sign") => signer[c] = TheKey
          /\ pc[c] = "key.trunc" => TheKey = Absent
          /\ pc[c] = "key.fill" => TheKey = Empty

HotKeyInv ==
    /\ stage \in {"loaded", "serving"} /\ hot.bundle # NoBundle =>
          hot.bundle \in Bundles /\ hot.bundle.key = TheKey
    /\ stage = "loaded" => hot.key = NoSigner
    /\ stage = "serving" /\ hot.key # NoSigner => hot.key = TheKey /\ hot.bundle # NoBundle

\* Where the key file holds no key there are no signatures.
LEMMA NoneWithoutKey ==
    ASSUME NEW k, k \notin Keys, NEW f, By(f, k)
    PROVE  \A j : By(f, j)
BY DEF By, Revisions, Bundles

\* The key file is only written while there are no signatures.
LEMMA KeyFileSteps ==
    ASSUME TypeOK, OneKeyInv, NEW c \in Clis, Command(c)
    PROVE  TheKey' = TheKey \/ TheKey \notin Keys
<1>k. Absent \notin Keys /\ Empty \notin Keys
  BY StoreConstantsOK
<1> USE DEF TheKey
<1>1. CASE TruncateKey(c) \/ FillKey(c)
  BY <1>k, <1>1 DEF TruncateKey, FillKey, OneKeyInv
<1>3. CASE BreakOff(c)
  BY <1>k, <1>3 DEF BreakOff, Mixed, OneKeyInv
<1>2. CASE ~(TruncateKey(c) \/ FillKey(c) \/ BreakOff(c))
  BY <1>2 DEF Command, Commit, TruncateRevision, FillRevision, TruncateHead, FillHead, UseKey,
      GenerateKey, SignHead, Deploy, LoadToSign, LoadToDeploy, TruncateDeployed, FillDeployed, BreakOff
<1> QED
  BY <1>1, <1>2, <1>3

\* A command that is alone signs with the key of the file.
LEMMA OneKeyKept ==
    ASSUME Alone, Paths = {DefaultPath}, TypeOK, StoreInv, OneKeyInv, NEW c \in Clis, Command(c)
    PROVE  OneKeyInv'
<1>j. JobInv(c) /\ \A d \in Clis : d = c
  BY DEF StoreInv, Alone
<1>k. /\ {Empty, Garbled, Absent} \cap Revisions = {} /\ {Empty, Absent} \cap Keys = {}
      /\ NoRev.bundle = NoBundle /\ NoSigner \notin Keys
  BY StoreConstantsOK DEF NoRev
<1>n. \A j : By(Empty, j) /\ By(Garbled, j) /\ By(NoRev, j)
  BY <1>k DEF By
<1>p. path[c] = DefaultPath /\ DefaultPath \in Paths
  BY DEF OneKeyInv
<1> USE <1>j, <1>k, <1>n, <1>p DEF TypeOK, OneKeyInv, Move, Stop, TheKey
<1>1. CASE Commit(c)
  <2>1. By([id |-> <<active, clock>>, content |-> active, bundle |-> NoBundle], TheKey)
    BY DEF By
  <2> QED
    BY <1>1, <2>1 DEF Commit
<1>2. CASE TruncateRevision(c)
  BY <1>2 DEF TruncateRevision
<1>3. CASE FillRevision(c)
  BY <1>3 DEF FillRevision, Filled
<1>4. CASE TruncateHead(c)
  BY <1>4 DEF TruncateHead
<1>5. CASE FillHead(c)
  BY <1>5 DEF FillHead
<1>6. CASE UseKey(c)
  BY <1>6 DEF UseKey
<1>7. CASE GenerateKey(c)
  BY <1>7 DEF GenerateKey
<1>8. CASE TruncateKey(c)
  <2>1. TheKey \notin Keys
    BY <1>8 DEF TruncateKey
  <2>2. /\ \A i \in RevIds : By(revs[i], Empty)
        /\ By(deployed, Empty) /\ By(rev[c], Empty)
    BY <2>1, NoneWithoutKey
  <2> QED
    BY <1>8, <2>2 DEF TruncateKey
<1>9. CASE FillKey(c)
  <2>1. TheKey \notin Keys
    BY <1>9 DEF FillKey
  <2>2. /\ \A i \in RevIds : By(revs[i], signer[c])
        /\ By(deployed, signer[c]) /\ By(rev[c], signer[c])
    BY <2>1, NoneWithoutKey
  <2> QED
    BY <1>9, <2>2 DEF FillKey
<1>10. CASE SignHead(c)
  BY <1>10 DEF SignHead
<1>11. CASE Deploy(c)
  BY <1>11 DEF Deploy
<1>12. CASE LoadToSign(c)
  <2> DEFINE r == revs[id[c]]
             s == [r EXCEPT !.bundle = Bundle(r.id, r.content, signer[c])]
  <2>1. CASE r \in Revisions
    <3>1. s.bundle.key = signer[c]
      BY <2>1 DEF Bundle, Revisions
    <3>2. /\ rev' = [rev EXCEPT ![c] = s] /\ UNCHANGED <<files, signer, path>>
          /\ pc' = [pc EXCEPT ![c] = "rev.trunc"] /\ signer[c] = TheKey
      BY <1>12, <2>1 DEF LoadToSign
    <3>3. By(s, TheKey)
      BY <3>1, <3>2 DEF By
    <3> HIDE DEF s
    <3> QED
      BY <3>2, <3>3
  <2>2. CASE r \notin Revisions
    BY <1>12, <2>2 DEF LoadToSign
  <2> QED
    BY <2>1, <2>2
<1>13. CASE LoadToDeploy(c)
  BY <1>13 DEF LoadToDeploy, Deployable, JobInv
<1>14. CASE TruncateDeployed(c)
  BY <1>14 DEF TruncateDeployed
<1>15. CASE FillDeployed(c)
  BY <1>15 DEF FillDeployed, Filled
<1>16. CASE BreakOff(c)
  BY <1>16 DEF BreakOff, Mixed
<1> QED
  BY <1>1, <1>2, <1>3, <1>4, <1>5, <1>6, <1>7, <1>8,
     <1>9, <1>10, <1>11, <1>12, <1>13, <1>14, <1>15, <1>16 DEF Command

\* The proxy loads a signature by the key it will read, as long as nobody else
\* writes the key file.
LEMMA HotKeyKept ==
    ASSUME StoreInv, OneKeyInv, HotKeyInv, Start \/ StopEngine
    PROVE  HotKeyInv'
<1> USE DEF HotKeyInv, Serve, Exit, TheKey
<1>1. CASE LoadDeployed
  <2>1. deployed \in Revisions /\ deployed.bundle # NoBundle
    BY <1>1 DEF LoadDeployed, StoreInv, DeployInv
  <2>2. deployed.bundle \in Bundles /\ deployed.bundle.key = TheKey
    BY <2>1 DEF OneKeyInv, By, Revisions
  <2> QED
    BY <1>1, <2>2 DEF LoadDeployed, vars
<1>2. CASE FallBack
  BY <1>2 DEF FallBack
<1>3. CASE ServeActive
  BY <1>3 DEF ServeActive
<1>4. CASE VerifyBundle
  <2>1. CASE HasSignature
    <3> DEFINE b == [hot EXCEPT !.key = KeyRead]
    <3>1. /\ hot' = b /\ stage' = "serving" /\ TheKey' = TheKey
          /\ hot.bundle \in Bundles /\ hot.bundle.key = TheKey /\ hot.bundle # NoBundle
          /\ hot.key = NoSigner
      BY <1>4, <2>1 DEF VerifyBundle, HasSignature, vars
    <3>2. b.bundle = hot.bundle /\ b.key \in {TheKey, NoSigner, hot.key}
      BY DEF KeyRead
    <3> HIDE DEF b
    <3> QED
      BY <3>1, <3>2
  <2>2. CASE ~HasSignature
    BY <1>4, <2>2 DEF VerifyBundle
  <2> QED
    BY <2>1, <2>2
<1>5. CASE SkipVerification
  BY <1>5 DEF SkipVerification, vars
<1>6. CASE StopEngine
  BY <1>6 DEF StopEngine
<1> QED
  BY <1>1, <1>2, <1>3, <1>4, <1>5, <1>6 DEF Start

\* Proxy and lone command keep it together.
LEMMA OneKeyStepwise ==
    ASSUME Alone, Paths = {DefaultPath}
    PROVE  EngineIInv /\ OneKeyInv /\ HotKeyInv /\ [EngineNext]_engineVars => OneKeyInv' /\ HotKeyInv'
<1> SUFFICES ASSUME EngineIInv, OneKeyInv, HotKeyInv, [EngineNext]_engineVars
             PROVE  OneKeyInv' /\ HotKeyInv'
  OBVIOUS
<1>0. TypeOK /\ StoreInv
  BY DEF EngineIInv, IInv
<1>1. ASSUME NEW c \in Clis, Command(c), UNCHANGED engine
      PROVE  OneKeyInv' /\ HotKeyInv'
  <2>1. OneKeyInv'
    BY <1>0, <1>1, OneKeyKept
  <2>2. TheKey' = TheKey \/ TheKey \notin Keys
    BY <1>0, <1>1, KeyFileSteps
  <2>3. hot.bundle \in Bundles => hot.bundle.key \in Keys
    BY DEF Bundles
  <2> QED
    BY <1>1, <2>1, <2>2, <2>3 DEF engine, HotKeyInv
<1>2. CASE (EditActive \/ Tick) /\ UNCHANGED engine
  BY <1>2 DEF EditActive, Tick, engine, OneKeyInv, HotKeyInv, TheKey
<1>3. CASE Start \/ StopEngine
  <2>1. UNCHANGED vars
    BY <1>3 DEF Start, LoadDeployed, FallBack, ServeActive, VerifyBundle, SkipVerification,
                StopEngine
  <2>2. HotKeyInv'
    BY <1>0, <1>3, HotKeyKept
  <2> QED
    BY <2>1, <2>2 DEF vars, OneKeyInv, TheKey
<1>4. CASE UNCHANGED engineVars
  BY <1>4 DEF engineVars, vars, engine, OneKeyInv, HotKeyInv, TheKey
<1> QED
  BY <1>1, <1>2, <1>3, <1>4 DEF EngineNext, Next

\* docs/SECURITY.md:53-56, while commands run one at a time and all of them use the
\* key file that the proxy reads: a proxy that read a key serves no bundle that was
\* signed with another one, wherever commands broke off before (engine.rs:66-84,
\* main.rs:31-32, 485-497).  That two commands make a key each, or that one of them
\* is told of another key file, is all that VerifiedBeforeServing fails for.
THEOREM OneCommandVerifies ==
    ASSUME Alone, Paths = {DefaultPath}
    PROVE  EngineSpec => []VerifiedBeforeServing
<1>1. EngineInit => OneKeyInv /\ HotKeyInv
  BY StoreConstantsOK DEF EngineInit, Init, OneKeyInv, By, NoRev, HotKeyInv
<1>2. OneKeyInv /\ HotKeyInv => VerifiedBeforeServing
  BY DEF HotKeyInv, VerifiedBeforeServing
<1> QED
  BY <1>1, <1>2, EngineInitially, EngineStepwise, OneKeyStepwise, PTL DEF EngineSpec

-----------------------------------------------------------------------------
(***************************************************************************)
(* One command at a time, none of them breaking off, is the abstract       *)
(* specification PolicyCommands.                                           *)
(***************************************************************************)
\* A lone command that does not break off keeps the files whole.
LEMMA SoloKept ==
    ASSUME Clis = {Only}, MaxMishaps = 0, TypeOK, StoreInv, SoloInv, Command(Only)
    PROVE  SoloInv'
<1>j. JobInv(Only) /\ Only \in Clis /\ HeadResolves
  BY DEF StoreInv
<1>k. /\ {Empty, Garbled, Absent} \cap (RevIds \cup Revisions \cup Keys) = {}
      /\ Absent # Empty /\ Empty # Garbled /\ Absent # Garbled
  BY StoreConstantsOK
<1> USE <1>j, <1>k DEF TypeOK, SoloInv, Move, Stop
<1>1. CASE Commit(Only)
  BY <1>1 DEF Commit
<1>2. CASE TruncateRevision(Only)
  BY <1>2 DEF TruncateRevision, JobInv
<1>3. CASE FillRevision(Only)
  BY <1>3 DEF FillRevision, Filled, JobInv
<1>4. CASE TruncateHead(Only)
  BY <1>4 DEF TruncateHead
<1>5. CASE FillHead(Only)
  BY <1>5 DEF FillHead, JobInv
<1>6. CASE UseKey(Only)
  BY <1>6 DEF UseKey
<1>7. CASE GenerateKey(Only)
  BY <1>7 DEF GenerateKey
<1>8. CASE TruncateKey(Only)
  BY <1>8 DEF TruncateKey
<1>9. CASE FillKey(Only)
  BY <1>9 DEF FillKey, JobInv
<1>10. CASE SignHead(Only)
  BY <1>10 DEF SignHead
<1>11. CASE Deploy(Only)
  BY <1>11 DEF Deploy
<1>12. CASE LoadToSign(Only)
  BY <1>12 DEF LoadToSign
<1>13. CASE LoadToDeploy(Only)
  BY <1>13 DEF LoadToDeploy
<1>14. CASE TruncateDeployed(Only)
  BY <1>14 DEF TruncateDeployed
<1>15. CASE FillDeployed(Only)
  BY <1>15 DEF FillDeployed, Filled
<1>16. CASE BreakOff(Only)
  BY <1>16 DEF BreakOff
<1> QED
  BY <1>1, <1>2, <1>3, <1>4, <1>5, <1>6, <1>7, <1>8,
     <1>9, <1>10, <1>11, <1>12, <1>13, <1>14, <1>15, <1>16 DEF Command

\* What the operator sees of the files.
Seen == <<HeadAfter, RevsAfter, DeployedAfter, KeyAfter>>

\* A key that is taken and a revision that is seen signed with it are a Sign.
LEMMA SignSeen ==
    ASSUME NEW p \in Paths, NEW k \in Keys, Absent \notin RevIds,
           \/ KeyAfter[p] = k /\ UNCHANGED <<KeyAfter, drawn>>
           \/ /\ KeyAfter[p] = Absent /\ KeyAfter' = [KeyAfter EXCEPT ![p] = k]
              /\ k \notin drawn /\ drawn' = drawn \cup {k},
           HeadAfter = Absent \/ HeadAfter \in RevIds,
           RevsAfter' = IF HeadAfter \in RevIds
                        THEN [RevsAfter EXCEPT ![HeadAfter] = SignedBy(@, k)] ELSE RevsAfter,
           UNCHANGED <<active, HeadAfter, DeployedAfter, clock>>
    PROVE  Commands!Sign
<1>1. Commands!RevIds = RevIds
  BY DEF Commands!RevIds, RevIds, Seconds
<1>2. \A r : SignedBy(r, k) = Commands!Signed(r, k)
  BY DEF SignedBy, Bundle, Commands!Signed
<1>3. Commands!TakeKey(p, k)
  BY DEF Commands!TakeKey
<1>4. CASE HeadAfter \in RevIds
  <2>1. RevsAfter' = [RevsAfter EXCEPT ![HeadAfter] = Commands!Signed(@, k)]
    BY <1>2, <1>4
  <2> QED
    BY <1>1, <1>3, <1>4, <2>1 DEF Commands!Sign
<1>5. CASE HeadAfter = Absent
  BY <1>1, <1>3, <1>5 DEF Commands!Sign
<1> QED
  BY <1>4, <1>5

\* The first step of a command is the whole of it; the others only carry out
\* what is seen already.
LEMMA CommandOrStutter ==
    ASSUME Clis = {Only}, MaxMishaps = 0, TypeOK, StoreInv, SoloInv, Command(Only)
    PROVE  Commands!Next \/ UNCHANGED Commands!vars
<1>j. JobInv(Only) /\ Only \in Clis /\ HeadResolves /\ Commands!RevIds = RevIds
  BY DEF StoreInv, Commands!RevIds, RevIds, Seconds
<1>k. /\ {Empty, Garbled, Absent} \cap (RevIds \cup Revisions \cup Keys) = {}
      /\ Absent # Empty /\ Empty # Garbled /\ Absent # Garbled
  BY StoreConstantsOK
<1>h. head \in RevIds /\ pc[Only] \notin {"rev.fill"} => revs[head] \in Revisions
  BY <1>j, <1>k DEF TypeOK, HeadResolves, SoloInv
<1> DEFINE quiet == UNCHANGED <<active, drawn, clock>>
<1>q. ASSUME quiet, Seen' = Seen
      PROVE  UNCHANGED Commands!vars
  BY <1>q DEF Commands!vars, Seen
<1> USE <1>j, <1>k DEF TypeOK, SoloInv, Move, Stop
<1> USE DEF Seen, HeadAfter, RevsAfter, DeployedAfter, KeyAfter, Committing, Rewriting,
            ToSign, ToDeploy
<1>1. CASE Commit(Only)
  <2> DEFINE i == <<active, clock>>
             r == [id |-> i, content |-> active, bundle |-> NoBundle]
  <2>1. HeadAfter' = i /\ RevsAfter' = [revs EXCEPT ![i] = r]
    BY <1>1 DEF Commit
  <2>2. RevsAfter = revs /\ DeployedAfter' = DeployedAfter /\ KeyAfter' = KeyAfter
    BY <1>1 DEF Commit
  <2>3. active \in Contents \ Invalid /\ quiet
    BY <1>1 DEF Commit
  <2>4. Commands!Commit
    BY <2>1, <2>2, <2>3 DEF Commands!Commit
  <2> QED
    BY <2>4 DEF Commands!Next
<1>2. CASE TruncateRevision(Only)
  BY <1>2, <1>q DEF TruncateRevision, JobInv
<1>3. CASE FillRevision(Only)
  BY <1>3, <1>q DEF FillRevision, Filled, JobInv
<1>4. CASE TruncateHead(Only)
  BY <1>4, <1>q DEF TruncateHead
<1>5. CASE FillHead(Only)
  BY <1>5, <1>q DEF FillHead, JobInv
<1>6. CASE UseKey(Only)
  <2>0. PICK p \in Paths : keyfile[p] \in Keys /\ signer' = [signer EXCEPT ![Only] = keyfile[p]]
    BY <1>6 DEF UseKey
  <2>1. /\ HeadAfter' = head /\ HeadAfter = head /\ RevsAfter = revs
        /\ DeployedAfter' = DeployedAfter /\ KeyAfter' = keyfile /\ KeyAfter = keyfile
        /\ quiet
    BY <1>6 DEF UseKey
  <2>2. RevsAfter' = IF head \in RevIds
                     THEN [revs EXCEPT ![head] = SignedBy(@, keyfile[p])] ELSE revs
    BY <1>6, <2>0 DEF UseKey
  <2>3. head = Absent \/ head \in RevIds
    BY <1>6 DEF UseKey
  <2>4. Commands!Sign
    <3> HIDE DEF HeadAfter, RevsAfter, DeployedAfter, KeyAfter
    <3> QED
      BY <2>0, <2>1, <2>2, <2>3, SignSeen
  <2> QED
    BY <2>4 DEF Commands!Next
<1>7. CASE GenerateKey(Only)
  <2>0. PICK p \in Paths : keyfile[p] = Absent /\ path' = [path EXCEPT ![Only] = p]
    BY <1>7 DEF GenerateKey
  <2>1. PICK k \in Keys \ drawn : drawn' = drawn \cup {k} /\ signer' = [signer EXCEPT ![Only] = k]
    BY <1>7 DEF GenerateKey
  <2>2. /\ HeadAfter' = head /\ HeadAfter = head /\ RevsAfter = revs
        /\ DeployedAfter' = DeployedAfter /\ KeyAfter' = [keyfile EXCEPT ![p] = k]
        /\ KeyAfter = keyfile
        /\ UNCHANGED <<active, clock>>
    BY <1>7, <2>0, <2>1 DEF GenerateKey
  <2>3. RevsAfter' = IF head \in RevIds THEN [revs EXCEPT ![head] = SignedBy(@, k)] ELSE revs
    BY <1>7, <2>1 DEF GenerateKey
  <2>4. head = Absent \/ head \in RevIds
    BY <1>7 DEF GenerateKey
  <2>5. Commands!Sign
    <3> HIDE DEF HeadAfter, RevsAfter, DeployedAfter, KeyAfter
    <3> QED
      BY <2>0, <2>1, <2>2, <2>3, <2>4, SignSeen
  <2> QED
    BY <2>5 DEF Commands!Next
<1>8. CASE TruncateKey(Only)
  BY <1>8, <1>q DEF TruncateKey
<1>9. CASE FillKey(Only)
  BY <1>9, <1>q DEF FillKey, JobInv
<1>10. CASE SignHead(Only)
  BY <1>10, <1>q DEF SignHead
<1>11. CASE Deploy(Only)
  <2>1. /\ HeadAfter' = head /\ HeadAfter = head /\ RevsAfter = revs /\ RevsAfter' = revs
        /\ KeyAfter' = KeyAfter /\ quiet /\ head \in RevIds /\ DeployedAfter = deployed
    BY <1>11 DEF Deploy
  <2>2. revs[head] \in Revisions
    BY <1>11, <1>h DEF Deploy
  <2>3. DeployedAfter' = IF revs[head].bundle # NoBundle THEN revs[head] ELSE deployed
    BY <1>11, <2>2 DEF Deploy, Deployable
  <2> HIDE DEF HeadAfter, RevsAfter, DeployedAfter, KeyAfter
  <2>4. CASE revs[head].bundle # NoBundle
    <3>1. Commands!Deploy
      BY <2>1, <2>3, <2>4 DEF Commands!Deploy
    <3> QED
      BY <3>1 DEF Commands!Next
  <2>5. CASE revs[head].bundle = NoBundle
    BY <1>q, <2>1, <2>3, <2>5
  <2> QED
    BY <2>4, <2>5
<1>12. CASE LoadToSign(Only)
  BY <1>12, <1>q, <1>h DEF LoadToSign, SignedBy, JobInv
<1>13. CASE LoadToDeploy(Only)
  BY <1>13, <1>q, <1>h DEF LoadToDeploy
<1>14. CASE TruncateDeployed(Only)
  BY <1>14, <1>q DEF TruncateDeployed
<1>15. CASE FillDeployed(Only)
  BY <1>15, <1>q DEF FillDeployed, Filled
<1>16. CASE BreakOff(Only)
  BY <1>16 DEF BreakOff
<1> QED
  BY <1>1, <1>2, <1>3, <1>4, <1>5, <1>6, <1>7, <1>8,
     <1>9, <1>10, <1>11, <1>12, <1>13, <1>14, <1>15, <1>16 DEF Command

\* The edits and the clock are the same in both.
LEMMA SoloSteps ==
    ASSUME Clis = {Only}, MaxMishaps = 0
    PROVE  IInv /\ SoloInv /\ [Next]_vars => SoloInv' /\ [Commands!Next]_(Commands!vars)
<1> SUFFICES ASSUME IInv, SoloInv, [Next]_vars
             PROVE  SoloInv' /\ (Commands!Next \/ UNCHANGED Commands!vars)
  OBVIOUS
<1>0. TypeOK /\ StoreInv
  BY DEF IInv
<1>1. CASE \E c \in Clis : Command(c)
  <2>1. Command(Only)
    BY <1>1
  <2> QED
    BY <1>0, <2>1, SoloKept, CommandOrStutter
<1> USE DEF SoloInv, HeadAfter, RevsAfter, DeployedAfter, KeyAfter, Committing, Rewriting,
            ToSign, ToDeploy
<1>2. CASE EditActive
  <2>1. SoloInv' /\ Commands!EditActive
    BY <1>2 DEF EditActive, Commands!EditActive
  <2> QED
    BY <2>1 DEF Commands!Next
<1>3. CASE Tick
  <2>1. SoloInv' /\ Commands!Tick
    BY <1>3 DEF Tick, Commands!Tick
  <2> QED
    BY <2>1 DEF Commands!Next
<1>4. CASE UNCHANGED vars
  BY <1>4 DEF vars, Commands!vars
<1> QED
  BY <1>1, <1>2, <1>3, <1>4 DEF Next

\* store.rs:74-124 and main.rs:485-508, run one after the other, none of
\* them breaking off: commit, sign and deploy, with their truncations and fills,
\* the edits and the seconds that pass in between, are seen as commands done at
\* once and whole. Concurrency and commands that break off are all that tears a
\* file or mixes two commands.
THEOREM LoneCommandsAreAtomic ==
    ASSUME Clis = {Only}, MaxMishaps = 0
    PROVE  Spec => Commands!Spec
<1>1. Init => SoloInv
  BY StoreConstantsOK DEF Init, SoloInv
<1>2. Init => Commands!Init
  BY DEF Init, Commands!Init, Commands!RevIds, RevIds, Seconds, HeadAfter, RevsAfter,
         DeployedAfter, KeyAfter, Committing, Rewriting, ToSign, ToDeploy
<1> QED
  BY <1>1, <1>2, Initially, Stepwise, SoloSteps, PTL DEF Spec, Commands!Spec

=============================================================================
