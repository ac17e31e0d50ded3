-------------------------- MODULE EntrySync_proofs --------------------------
(* What holds of one entry's life on a device for every content, every bound, *)
(* and every overlap of local work with pushes and pulls.                     *)
EXTENDS EntrySync, WellFoundedInduction, TLAPS

-----------------------------------------------------------------------------
(***************************************************************************)
(* What the proofs distinguish.                                            *)
(***************************************************************************)
PushPCs == {"idle", "list", "read", "requeue", "upload", "refused", "ready",
            "answered", "plan", "apply"}
PullPCs == {"idle", "planned", "prepare", "inspect", "begin", "copy", "vault",
            "store", "checkpoint"}

\* A mutation is in the push's hands.
Working == push.pc \notin {"idle", "list"}
\* The server has accepted it.
Settling == \/ push.pc = "answered" /\ push.result = "accepted"
            \/ push.pc \in {"plan", "apply"}
\* A change is in the pull's hands; its row is known; the row is being changed.
Pulling  == pull.pc \notin {"idle", "checkpoint"}
Planned  == Pulling /\ pull.pc # "planned"
Applying == pull.pc \in {"copy", "vault", "store"}

\* m may be settled by an acceptance: it is the row's, the push's, or comes
\* back when the vault refuses what is pulled.
InPlay(m) == \/ m = row.pending
             \/ Working /\ m = push.mut
             \/ Applying /\ m = pull.snap.pending

(***************************************************************************)
(* The invariant.                                                          *)
(***************************************************************************)
RecRecord == [pc : {"idle", "hash", "encrypt", "encryptDelete"},
              hash : File, base : Nat]
ServerRecord == [rev : Nat, hash : File, body : File, seq : Nat, cursor : Nat]
PushRecord ==
    [pc : PushPCs, mut : Mutation, bytes : File, base : Nat,
     result : {"none", "accepted", "stale"}, rev : Nat, at : Nat,
     plan : Nat, tries : Nat, start : Nat, acked : SUBSET Nat,
     requeued : Nat, pullAfter : BOOLEAN]
PullRecord ==
    [pc : PullPCs, rev : Nat, hash : File, target : Nat, skip : BOOLEAN,
     old : Row, pend : Mutation, keep : BOOLEAN, copy : File, snap : Row]

\* The shape of the state, with the whole of push and pull.
Shape ==
    /\ disk \in File /\ copies \subseteq Content
    /\ event \in BOOLEAN /\ up \in BOOLEAN
    /\ wantPush \in BOOLEAN /\ wantPull \in BOOLEAN
    /\ row \in Row /\ cursor \in Nat /\ nextId \in Nat
    /\ rec \in RecRecord /\ push \in PushRecord /\ pull \in PullRecord
    /\ server \in ServerRecord
    /\ published \subseteq Content /\ limited \in BOOLEAN
    /\ \A i \in DOMAIN accepted :
          accepted[i].rev \in Nat /\ accepted[i].at \in Nat
    /\ pull.pc = "copy" => pull.copy # NoFile

\* Push and pull take turns; a dead process does neither.
Turns ==
    /\ push.pc = "idle" => push.acked = {}
    /\ push.pc = "idle" \/ pull.pc = "idle"
    /\ ~up => push.pc = "idle" /\ pull.pc = "idle" /\ rec.pc = "idle"

\* Mutation ids are used up in order; 0 is none.
Ids ==
    /\ \A i \in DOMAIN accepted : i \in Nat /\ 0 < i /\ i < nextId
    /\ nextId > 0 /\ row.pending.id < nextId
    /\ Working => 0 < push.mut.id /\ push.mut.id < nextId
    /\ Applying => pull.snap.pending.id < nextId

\* What the server has numbered, and where the device stands in it.
Books ==
    /\ server.seq <= server.cursor /\ cursor <= server.cursor
    /\ row.rev <= server.rev
    /\ server.body = server.hash
    /\ server.hash \in published \cup {NoFile}
    /\ \A i \in DOMAIN accepted :
         /\ accepted[i].rev <= server.rev /\ accepted[i].at <= server.seq
         /\ accepted[i].at = server.seq => accepted[i].rev = server.rev

\* An acceptance still to be settled is news to the row, and its content is out.
News ==
    \A m \in Mutation : InPlay(m) /\ m.id \in DOMAIN accepted =>
        accepted[m.id].rev > row.rev /\ m.hash \in published \cup {NoFile}

\* What the push holds.
Pushed ==
    /\ push.pc # "idle" => push.start = cursor
    /\ push.acked \subseteq 0..server.cursor
    /\ server.seq \in push.acked => row.rev = server.rev
    /\ Working => \/ row.pending.id = push.mut.id /\ row.pending.hash = push.mut.hash
                  \/ row.pending.id # push.mut.id /\ row.pending.id \notin DOMAIN accepted
    /\ Settling => /\ push.mut.id \in DOMAIN accepted
                   /\ push.rev = accepted[push.mut.id].rev
                   /\ push.at = accepted[push.mut.id].at
    /\ push.pc \in {"upload", "refused", "ready"} => push.bytes = push.mut.hash

\* What the pull holds.
Pulled ==
    /\ pull.pc # "idle" => cursor <= pull.target /\ pull.target <= server.cursor
    /\ Pulling => /\ pull.rev <= server.rev
                  /\ server.seq <= pull.target => pull.rev = server.rev
                  /\ pull.hash \in published \cup {NoFile}
    /\ Planned => pull.old.rev = row.rev
    /\ Applying => pull.snap.rev = row.rev
    /\ pull.pc = "checkpoint" => (server.seq <= pull.target => row.rev = server.rev)

EntryInv == /\ Shape /\ Turns /\ Ids /\ Books /\ News /\ Pushed /\ Pulled
            /\ CursorCoversOnlyApplied

-----------------------------------------------------------------------------
(* The checkpoint of a push. *)

LEMMA LeastNumber ==
    ASSUME NEW S \in SUBSET Nat, S # {}
    PROVE  \E m \in S : \A k \in S : m <= k
<1>1. PICK m \in S : \A k \in S : ~(<<k, m>> \in OpToRel(<, Nat))
  BY WFMin, NatLessThanWellFounded
<1>2. \A k \in S : ~(k < m)
  BY <1>1 DEF OpToRel
<1> QED
  BY <1>2

\* The checkpoint a push computes is its start or a number it was answered
\* with, and everything between the two was answered to it.
LEMMA ContiguousIs ==
    ASSUME NEW from \in Nat, NEW top \in Nat, from <= top,
           NEW acked, acked \subseteq 0..top
    PROVE  LET n == Contiguous(from, acked) IN
             n \in Nat /\ from <= n /\ n <= top /\ (from + 1)..n \subseteq acked
<1> DEFINE Missing == {m \in Nat : from < m /\ m \notin acked}
           Fits(n) == /\ n \in acked \cup {from}
                      /\ n >= from /\ (from + 1)..n \subseteq acked
                      /\ n + 1 \notin acked
<1>1. top + 1 \in Missing /\ Missing \in SUBSET Nat
  OBVIOUS
<1>2. PICK m \in Missing : \A k \in Missing : m <= k
  BY <1>1, LeastNumber
<1>3. Fits(m - 1)
  <2>1. m \in Nat /\ from < m /\ m \notin acked
    BY <1>2
  <2>2. (from + 1)..(m - 1) \subseteq acked
    <3> SUFFICES ASSUME NEW k \in (from + 1)..(m - 1) PROVE k \in acked
      OBVIOUS
    <3>1. k \in Nat /\ from < k /\ k < m
      BY <2>1
    <3> QED
      BY <3>1, <1>2, <2>1
  <2>3. m - 1 = from \/ m - 1 \in (from + 1)..(m - 1)
    BY <2>1
  <2>4. m - 1 \in acked \cup {from}
    BY <2>2, <2>3
  <2>5. m - 1 >= from /\ (m - 1) + 1 = m
    BY <2>1
  <2> QED
    BY <2>1, <2>2, <2>4, <2>5
<1>4. \E n \in acked \cup {from} :
        n >= from /\ (from + 1)..n \subseteq acked /\ n + 1 \notin acked
  BY <1>3
<1>5. Fits(Contiguous(from, acked))
  BY <1>4 DEF Contiguous
<1> HIDE DEF Fits
<1> DEFINE n == Contiguous(from, acked)
<1>6. n \in acked \cup {from} /\ n >= from /\ (from + 1)..n \subseteq acked
  BY <1>5 DEF Fits
<1> HIDE DEF n
<1>7. n \in Nat /\ n <= top
  BY <1>6
<1> QED
  BY <1>6, <1>7 DEF n

-----------------------------------------------------------------------------
(* The shape of the state. *)

LEMMA MutationType ==
    ASSUME nextId \in Nat, NEW hash \in File, NEW base \in Nat
    PROVE  NewMutation(hash, base) \in Mutation
  BY DEF NewMutation, Mutation

LEMMA UpsertedType ==
    ASSUME NEW rev \in Nat, NEW hash \in File
    PROVE  UpsertedRow(rev, hash) \in Row
  BY DEF UpsertedRow, Row, NoMutation, Mutation, File

\* A row with another pending mutation, and perhaps another local state.
LEMMA PendingType ==
    ASSUME NEW r \in Row, NEW m \in Mutation, NEW l \in File \cup {Unknown}
    PROVE  /\ [r EXCEPT !.pending = m] \in Row
           /\ [r EXCEPT !.pending = m].rev = r.rev
           /\ [r EXCEPT !.pending = m].pending = m
           /\ [r EXCEPT !.pending = m, !.local = l] \in Row
           /\ [r EXCEPT !.pending = m, !.local = l].rev = r.rev
           /\ [r EXCEPT !.pending = m, !.local = l].pending = m
<1> DEFINE s == [r EXCEPT !.pending = m]
<1>1. s \in Row /\ s.rev = r.rev /\ s.pending = m
  BY DEF Row
<1> HIDE DEF s
<1>2. [s EXCEPT !.local = l] \in Row /\ [s EXCEPT !.local = l].rev = s.rev
      /\ [s EXCEPT !.local = l].pending = s.pending
  BY <1>1 DEF Row
<1> USE DEF s
<1>3. [r EXCEPT !.pending = m, !.local = l] = [s EXCEPT !.local = l]
  OBVIOUS
<1> QED
  BY <1>1, <1>2, <1>3

LEMMA EmptyRowType == EmptyRow \in Row
  BY DEF EmptyRow, Row, NoMutation, Mutation, File

LEMMA CombinedType ==
    ASSUME NEW r \in Row
    PROVE  CombinedHash(r) \in File
  BY DEF CombinedHash, Row

LEMMA IdleTypes == PushIdle \in PushRecord /\ PullIdle \in PullRecord
                   /\ RecIdle.pc = "idle" /\ RecIdle.hash = NoFile /\ RecIdle.base = 0
                   /\ NoMutation \in Mutation /\ NoMutation.id = 0 /\ NoFile \in File
<1>1. NoMutation \in Mutation /\ EmptyRow \in Row /\ NoFile \in File
  BY EmptyRowType DEF NoMutation, Mutation, File
<1>2. PushIdle \in PushRecord
  BY <1>1 DEF PushIdle, PushRecord, PushPCs
<1>3. PullIdle \in PullRecord
  BY <1>1 DEF PullIdle, PullRecord, PullPCs
<1> QED
  BY <1>1, <1>2, <1>3 DEF RecIdle, NoMutation

LEMMA ShapeIsType == Shape => TypeOK
  BY DEF Shape, TypeOK, RecRecord, ServerRecord, PushRecord, PullRecord,
         PushPCs, PullPCs

LEMMA InitShape == Init => Shape
<1> SUFFICES ASSUME Init PROVE Shape
  OBVIOUS
<1>1. push \in PushRecord /\ pull \in PullRecord /\ rec \in RecRecord
  BY IdleTypes DEF Init, RecIdle, RecRecord, File
<1>2. pull.pc # "copy" /\ DOMAIN accepted = {}
  BY DEF Init, PullIdle
<1>3. CASE row = EmptyRow /\ disk = NoFile /\ cursor = 0 /\ published = {}
           /\ server = [rev |-> 0, hash |-> NoFile, body |-> NoFile,
                        seq |-> 0, cursor |-> 0]
  BY <1>1, <1>2, <1>3, EmptyRowType DEF Init, Shape, ServerRecord, File
<1>4. ASSUME NEW c \in Content, disk = c, row = UpsertedRow(1, c), cursor = 1,
             published = {c},
             server = [rev |-> 1, hash |-> c, body |-> c, seq |-> 1, cursor |-> 1]
      PROVE  Shape
  <2>1. row \in Row /\ c \in File
    BY <1>4, UpsertedType DEF File
  <2> QED
    BY <1>1, <1>2, <1>4, <2>1 DEF Init, Shape, ServerRecord
<1> QED
  BY <1>3, <1>4 DEF Init

\* The user, the watcher and the recorder.
LEMMA LocalShape ==
    ASSUME Shape,
           \/ Recorder \/ PolicyUpdated \/ Notify \/ UserRemove
           \/ \E c \in Content : UserWrite(c)
    PROVE  Shape'
<1> USE DEF Shape, device, drain, remote
<1>1. CASE RecordDrop
  BY <1>1 DEF RecordDrop
<1>2. CASE RecordRead
  BY <1>2, IdleTypes DEF RecordRead, RecIdle, RecRecord
<1>3. CASE RecordHashed
  BY ZenonT(60), <1>3, IdleTypes DEF RecordHashed, RecIdle, RecRecord, Row, File
<1>4. CASE RecordUpsert
  <2>1. NewMutation(rec.hash, rec.base) \in Mutation
    BY MutationType DEF RecRecord
  <2>2. row' \in Row
    BY <1>4, <2>1, PendingType DEF RecordUpsert, RecRecord
  <2> QED
    BY <1>4, <2>2 DEF RecordUpsert, RecIdle, RecRecord, File
<1>5. CASE RecordDelete
  <2>0. /\ \/ row' = row
           \/ row' = EmptyRow
           \/ row' = [row EXCEPT !.pending = NoMutation, !.local = NoFile]
    BY <1>5 DEF RecordDelete
  <2>6. row \in Row /\ NoMutation \in Mutation /\ NoFile \in File \cup {Unknown}
    BY IdleTypes
  <2>7. [row EXCEPT !.pending = NoMutation, !.local = NoFile] \in Row
    BY <2>6, PendingType
  <2>1. row' \in Row
    BY <2>0, <2>6, <2>7, EmptyRowType
  <2>2. row.rev \in Nat /\ NoFile \in File
    BY DEF Row, File
  <2>3. [RecIdle EXCEPT !.pc = "encryptDelete", !.base = row.rev] \in RecRecord
    BY <2>2 DEF RecIdle, RecRecord
  <2>4. rec' \in RecRecord
    BY <1>5, <2>3 DEF RecordDelete
  <2>5. UNCHANGED <<disk, copies, cursor, nextId, push, pull, wantPush, wantPull,
                    server, accepted, published, limited, up>> /\ event' = FALSE
    BY <1>5 DEF RecordDelete
  <2> QED
    BY <2>1, <2>4, <2>5
<1>6. CASE RecordDeleteQueued
  <2>1. NewMutation(NoFile, rec.base) \in Mutation
    BY MutationType DEF RecRecord, File
  <2> QED
    BY <1>6, <2>1 DEF RecordDeleteQueued, RecIdle, RecRecord, Row, File
<1>7. CASE PolicyUpdated
  BY <1>7 DEF PolicyUpdated, Unblocked, Row, Mutation
<1>8. CASE Notify
  BY <1>8 DEF Notify
<1>9. CASE UserRemove
  BY <1>9 DEF UserRemove, File
<1>10. ASSUME NEW c \in Content, UserWrite(c) PROVE Shape'
  BY <1>10 DEF UserWrite, File
<1> QED
  BY <1>1, <1>2, <1>3, <1>4, <1>5, <1>6, <1>7, <1>8, <1>9, <1>10 DEF Recorder

\* The push, without its end.
LEMMA PushShape ==
    ASSUME Shape, Push, ~PushFinish
    PROVE  Shape'
<1> USE DEF device, drain, remote
<1>0. /\ push \in PushRecord /\ row \in Row /\ row.pending \in Mutation
      /\ row.rev \in Nat /\ row.local \in File \cup {Unknown}
      /\ disk \in File /\ cursor \in Nat /\ NoFile \in File
      /\ push.mut \in Mutation /\ push.mut.hash \in File /\ push.mut.base \in Nat
      /\ push.rev \in Nat /\ push.at \in Nat
      /\ push.bytes \in File /\ push.base \in Nat /\ nextId \in Nat
      /\ row.pending.id \in Nat /\ push.requeued \in Nat /\ push.tries \in Nat
  BY DEF Shape, PushRecord, Row, Mutation, File
\* The state but for the push, the row and the server.
<1> DEFINE Rest == UNCHANGED <<disk, copies, event, up, cursor, rec, pull, limited>>
           Same == UNCHANGED <<row, nextId, server, accepted, published>>
<1>1. ASSUME Rest, Same, push' \in PushRecord,
             wantPush' \in BOOLEAN, wantPull' \in BOOLEAN
      PROVE  Shape'
  BY <1>1 DEF Shape
<1>2. ASSUME Rest, UNCHANGED <<server, accepted, published, wantPush, wantPull>>,
             push' \in PushRecord, row' \in Row, nextId' \in Nat
      PROVE  Shape'
  BY <1>2 DEF Shape
<1>3. CASE PushStart
  <2>1. push' = [PushIdle EXCEPT !.pc = "list", !.start = cursor]
    BY <1>3 DEF PushStart
  <2>2. push' \in PushRecord
    BY ZenonT(60), <2>1, <1>0, IdleTypes DEF PushIdle, PushRecord, PushPCs
  <2> QED
    BY <1>1, <1>3, <2>2 DEF PushStart, Shape
<1>4. CASE PushTake
  <2>1. push' \in PushRecord
    BY <1>4, <1>0 DEF PushTake, PushRecord, PushPCs
  <2> QED
    BY <1>1, <1>4, <2>1 DEF PushTake, Shape
<1>5. CASE PushRead
  <2>1. push' \in PushRecord
    BY <1>5, <1>0 DEF PushRead, PushRecord, PushPCs
  <2> QED
    BY <1>1, <1>5, <2>1 DEF PushRead, Shape
<1>6. CASE PushReadMissing
  BY <1>1, <1>6, IdleTypes DEF PushReadMissing, PushAborts, Shape
<1>7. CASE PushRequeue
  <2>1. push' \in PushRecord
    <3>1. push' = [push EXCEPT !.pc = "list", !.requeued = push.requeued + 1]
      BY <1>7 DEF PushRequeue
    <3>2. push.requeued + 1 \in Nat
      BY <1>0
    <3> QED
      BY <1>0, <3>1, <3>2 DEF PushRecord, PushPCs
  <2>2. row' \in Row
    <3>1. NewMutation(push.bytes, push.base) \in Mutation
      BY <1>0, MutationType
    <3>2. push.bytes \in File \cup {Unknown}
      BY <1>0
    <3>3. [row EXCEPT !.pending = NewMutation(push.bytes, push.base),
                      !.local = push.bytes] \in Row
      BY <1>0, <3>1, <3>2, PendingType
    <3> QED
      BY <1>7, <3>3 DEF PushRequeue
  <2> QED
    BY <1>0, <1>2, <1>7, <2>1, <2>2 DEF PushRequeue
<1>8. CASE PushUpload
  <2>1. push' \in PushRecord
    BY <1>8, <1>0 DEF PushUpload, PushRecord, PushPCs
  <2> QED
    BY <1>1, <1>8, <2>1 DEF PushUpload, Shape
<1>9. CASE PushBlock
  <2>1. push' \in PushRecord
    BY <1>9, <1>0 DEF PushBlock, PushRecord, PushPCs
  <2>2. row' \in Row
    <3>1. [push.mut EXCEPT !.blocked = TRUE] \in Mutation
      BY <1>0 DEF Mutation
    <3>2. [row EXCEPT !.pending = [push.mut EXCEPT !.blocked = TRUE]] \in Row
      BY <1>0, <3>1, PendingType
    <3> QED
      BY <1>9, <3>2 DEF PushBlock
  <2> QED
    BY <1>0, <1>2, <1>9, <2>1, <2>2 DEF PushBlock
<1>10. CASE PushRejected
  <2>1. push' \in PushRecord
    BY <1>10, <1>0 DEF PushRejected, PushRecord, PushPCs
  <2> QED
    BY <1>1, <1>10, <2>1 DEF PushRejected, Shape
<1>11. CASE PushAccepted
  <2>1. push' \in PushRecord
    BY <1>11, <1>0 DEF PushAccepted, PushRecord, PushPCs
  <2> QED
    BY <1>1, <1>11, <2>1 DEF PushAccepted, Shape
<1>12. CASE PushPlan
  <2>1. push' \in PushRecord
    BY <1>12, <1>0 DEF PushPlan, PushRecord, PushPCs
  <2> QED
    BY <1>1, <1>12, <2>1 DEF PushPlan, Shape
<1>13. CASE PushApply
  <2>1. push' \in PushRecord
    BY <1>13, <1>0 DEF PushApply, PushRecord, PushPCs
  <2>2. row' \in Row
    <3>1. [row.pending EXCEPT !.base = push.rev] \in Mutation
      BY <1>0 DEF Mutation
    <3>2. AcceptedRow \in Row
      BY <1>0, <3>1, IdleTypes DEF AcceptedRow, Row
    <3> QED
      BY <1>13, <3>2 DEF PushApply
  <2> QED
    BY <1>0, <1>2, <1>13, <2>1, <2>2 DEF PushApply
<1>14. CASE PushApplyRetry
  <2>1. push' \in PushRecord
    <3>1. push' = [push EXCEPT !.pc = "plan", !.tries = push.tries + 1]
      BY <1>14 DEF PushApplyRetry
    <3>2. push.tries + 1 \in Nat
      BY <1>0
    <3> QED
      BY <1>0, <3>1, <3>2 DEF PushRecord, PushPCs
  <2> QED
    BY <1>1, <1>14, <2>1 DEF PushApplyRetry, Shape
<1>15. CASE PushApplyGivesUp
  BY <1>1, <1>15, IdleTypes DEF PushApplyGivesUp, PushAborts, Shape
<1>16. CASE PushCommit
  <2>0. /\ server.rev \in Nat /\ server.cursor \in Nat
        /\ \A i \in DOMAIN accepted : accepted[i].rev \in Nat /\ accepted[i].at \in Nat
    BY DEF Shape, ServerRecord
  <2>1. CASE /\ push.mut.id \in DOMAIN accepted
             /\ push' = [push EXCEPT !.pc = "answered", !.result = "accepted",
                                  !.rev = accepted[push.mut.id].rev,
                                  !.at = accepted[push.mut.id].at]
             /\ UNCHANGED remote
    <3>1. push' \in PushRecord
      BY <1>0, <2>0, <2>1 DEF PushRecord, PushPCs
    <3> QED
      BY <1>1, <1>16, <2>1, <3>1 DEF PushCommit, Shape
  <2>2. CASE /\ push.mut.id \notin DOMAIN accepted
             /\ push' = [push EXCEPT !.pc = "answered", !.result = "stale"]
             /\ UNCHANGED remote
    <3>1. push' \in PushRecord
      BY <1>0, <2>2 DEF PushRecord, PushPCs
    <3> QED
      BY <1>1, <1>16, <2>2, <3>1 DEF PushCommit, Shape
  <2>3. CASE /\ server' = [rev |-> server.rev + 1, hash |-> push.mut.hash,
                        body |-> push.bytes, seq |-> server.cursor + 1,
                        cursor |-> server.cursor + 1]
             /\ accepted' = [i \in DOMAIN accepted \cup {push.mut.id} |->
                            IF i = push.mut.id
                            THEN [rev |-> server'.rev, at |-> server'.seq]
                            ELSE accepted[i]]
             /\ published' = published \cup ({push.mut.hash} \ {NoFile})
             /\ UNCHANGED limited
             /\ push' = [push EXCEPT !.pc = "answered", !.result = "accepted",
                                  !.rev = server'.rev, !.at = server'.seq]
    <3>1. server' \in ServerRecord /\ server'.rev \in Nat /\ server'.seq \in Nat
      BY <1>0, <2>0, <2>3 DEF ServerRecord
    <3>2. push' \in PushRecord
      BY <1>0, <2>3, <3>1 DEF PushRecord, PushPCs
    <3>3. \A i \in DOMAIN accepted' : accepted'[i].rev \in Nat /\ accepted'[i].at \in Nat
      BY <2>0, <2>3, <3>1
    <3>4. published' \subseteq Content
      BY <1>0, <2>3 DEF Shape, File
    <3> QED
      BY <1>16, <2>3, <3>1, <3>2, <3>3, <3>4 DEF PushCommit, Shape
  <2> QED
    BY <1>16, <2>1, <2>2, <2>3 DEF PushCommit
<1> QED
  BY <1>3, <1>4, <1>5, <1>6, <1>7, <1>8, <1>9, <1>10, <1>11, <1>12, <1>13, <1>14,
     <1>15, <1>16 DEF Push

\* The pull.
LEMMA PullShape ==
    ASSUME Shape, Pull \/ PullFails \/ PullVaultFails
    PROVE  Shape'
<1> USE DEF device, drain, remote
<1>0. /\ pull \in PullRecord /\ row \in Row /\ row.pending \in Mutation
      /\ disk \in File /\ cursor \in Nat /\ NoFile \in File
      /\ pull.rev \in Nat /\ pull.hash \in File /\ pull.target \in Nat
      /\ pull.old \in Row /\ pull.old.rev \in Nat /\ pull.snap \in Row
      /\ pull.copy \in File /\ pull.pend \in Mutation
      /\ server.rev \in Nat /\ server.hash \in File /\ server.cursor \in Nat
  BY IdleTypes DEF Shape, PullRecord, Row, ServerRecord
<1> DEFINE Rest == UNCHANGED <<event, nextId, up, rec, push, wantPush, server,
                               accepted, published, limited>>
           Same == UNCHANGED <<disk, copies, row, cursor>>
<1>1. ASSUME Rest, Same, wantPull' \in BOOLEAN, pull' \in PullRecord, pull'.pc # "copy"
      PROVE  Shape'
  BY <1>1 DEF Shape
<1>2. ASSUME Rest, UNCHANGED <<disk, cursor>>, copies' \subseteq Content, row' \in Row,
             wantPull' \in BOOLEAN, pull' \in PullRecord,
             pull'.pc = "copy" => pull'.copy # NoFile
      PROVE  Shape'
  BY <1>2 DEF Shape
<1>3. CombinedHash(pull.old) \in File
      /\ UpsertedRow(pull.old.rev, CombinedHash(pull.old)) \in Row
  BY <1>0, CombinedType, UpsertedType
<1>4. PathReleased(ConflictCleared) \in Row
  <2>1. ConflictCleared \in Row
    <3>1. [row EXCEPT !.pending = NoMutation] \in Row
      BY <1>0, IdleTypes, PendingType
    <3> QED
      BY <1>0, <3>1 DEF ConflictCleared
  <2> QED
    BY <1>3, <2>1 DEF PathReleased
<1>5. CASE PullFetch
  <2>1. pull' \in PullRecord /\ pull'.pc # "copy"
    BY ZenonT(60), <1>0, <1>5, IdleTypes DEF PullFetch, PullIdle, PullRecord, PullPCs
  <2> QED
    BY <1>1, <1>5, <2>1 DEF PullFetch
<1>6. CASE PullPlan
  <2>1. AlreadyApplied \in BOOLEAN
    BY DEF AlreadyApplied
  <2>2. pull' \in PullRecord /\ pull'.pc # "copy"
    BY <1>0, <1>6, <2>1 DEF PullPlan, PullRecord, PullPCs
  <2> QED
    BY <1>1, <1>6, <2>2 DEF PullPlan, Shape
<1>7. CASE PullPrepare
  <2>1. pull' \in PullRecord /\ pull'.pc # "copy"
    BY <1>0, <1>7 DEF PullPrepare, PullRecord, PullPCs
  <2> QED
    BY <1>1, <1>7, <2>1 DEF PullPrepare, Shape
<1>8. CASE PullInspect
  <2> DEFINE b == ~AlreadyRemote
             c == IF ~AlreadyRemote /\ pull.pend.hash # NoFile THEN disk ELSE NoFile
  <2>1. b \in BOOLEAN
    BY DEF AlreadyRemote
  <2>2. c \in File
    BY <1>0
  <2>3. pull' = [pull EXCEPT !.pc = "begin", !.keep = b, !.copy = c]
    BY <1>8 DEF PullInspect
  <2> HIDE DEF b, c
  <2>4. pull' \in PullRecord /\ pull'.pc # "copy"
    BY <1>0, <2>1, <2>2, <2>3 DEF PullRecord, PullPCs
  <2> QED
    BY <1>1, <1>8, <2>4 DEF PullInspect, Shape
<1>9. CASE PullBegin
  <2>1. /\ pull' \in PullRecord
        /\ pull'.pc = "copy" => pull'.copy # NoFile
    BY <1>0, <1>9 DEF PullBegin, PullRecord, PullPCs
  <2>2. row' \in Row
    BY <1>0, <1>4, <1>9 DEF PullBegin
  <2> QED
    BY <1>2, <1>9, <2>1, <2>2 DEF PullBegin, Shape
<1>10. CASE PullCopy
  <2>1. pull' \in PullRecord /\ pull'.pc # "copy"
    BY <1>0, <1>10 DEF PullCopy, PullRecord, PullPCs
  <2>2. pull.copy \in Content
    BY <1>0, <1>10 DEF PullCopy, Shape, File
  <2>3. copies' \subseteq Content
    BY <1>10, <2>2 DEF PullCopy, Shape
  <2> QED
    BY <1>2, <1>4, <1>10, <2>1, <2>3 DEF PullCopy, Shape
<1>11. CASE PullVault
  <2>1. pull' \in PullRecord /\ pull'.pc # "copy"
    BY <1>0, <1>11 DEF PullVault, PullRecord, PullPCs
  <2>2. disk' \in File /\ event' \in BOOLEAN
    BY <1>0, <1>11 DEF PullVault, VaultAfterPull, Shape
  <2> QED
    BY <1>11, <2>1, <2>2 DEF PullVault, Shape
<1>12. CASE PullStore
  <2>1. pull' \in PullRecord /\ pull'.pc # "copy"
    BY <1>0, <1>12 DEF PullStore, PullRecord, PullPCs
  <2>2. row' \in Row
    BY <1>0, <1>12, UpsertedType DEF PullStore
  <2> QED
    BY <1>2, <1>12, <2>1, <2>2 DEF PullStore, Shape
<1>13. CASE PullCheckpoint
  <2>1. cursor' \in Nat /\ pull'.pc # "copy" /\ pull' \in PullRecord
    BY <1>0, <1>13, IdleTypes DEF PullCheckpoint, PullIdle
  <2> QED
    BY <1>13, <2>1 DEF PullCheckpoint, Shape
<1>14. CASE PullFails
  <2>1. pull'.pc # "copy" /\ pull' \in PullRecord
    BY <1>14, IdleTypes DEF PullFails, PullIdle
  <2> QED
    BY <1>1, <1>14, <2>1 DEF PullFails
<1>15. CASE PullVaultFails
  <2>1. pull'.pc # "copy" /\ pull' \in PullRecord
    BY <1>15, IdleTypes DEF PullVaultFails, PullIdle
  <2> QED
    BY <1>0, <1>2, <1>15, <2>1 DEF PullVaultFails, Shape
<1> QED
  BY <1>5, <1>6, <1>7, <1>8, <1>9, <1>10, <1>11, <1>12, <1>13, <1>14, <1>15 DEF Pull

\* The other devices, failures of the push, crash and restart.
LEMMA OutsideShape ==
    ASSUME Shape, \/ RemoteElsewhere \/ PushFails \/ Crash \/ Restart
                  \/ \E hash \in File : RemoteChange(hash)
    PROVE  Shape'
<1> USE DEF device, drain, remote
<1>0. /\ row \in Row /\ row.rev \in Nat /\ nextId \in Nat /\ nextId + 1 \in Nat
      /\ disk \in File /\ rec.hash \in File /\ rec.base \in Nat
      /\ server \in ServerRecord /\ server.rev \in Nat /\ server.cursor \in Nat
  BY DEF Shape, Row, RecRecord, ServerRecord
<1>1. CASE RemoteElsewhere
  <2>1. server' \in ServerRecord
    BY <1>0, <1>1 DEF RemoteElsewhere, ServerRecord
  <2> QED
    BY <1>1, <2>1 DEF RemoteElsewhere, Shape
<1>2. CASE PushFails
  BY <1>2, IdleTypes DEF PushFails, PushAborts, Shape
<1>3. CASE Crash
  <2>1. row' \in Row /\ nextId' \in Nat
    <3>1. NewMutation(rec.hash, rec.base) \in Mutation
      BY <1>0, MutationType
    <3>2. [row EXCEPT !.pending = NewMutation(rec.hash, rec.base)] \in Row
      BY <1>0, <3>1, PendingType
    <3> QED
      BY <1>0, <1>3, <3>2 DEF Crash
  <2>2. /\ rec' \in RecRecord /\ push' \in PushRecord /\ pull' \in PullRecord
        /\ pull'.pc # "copy"
    BY <1>3, IdleTypes DEF Crash, RecIdle, RecRecord, PullIdle
  <2> QED
    BY <1>3, <2>1, <2>2 DEF Crash, Shape
<1>4. CASE Restart
  <2>1. row' \in Row /\ nextId' \in Nat
    <3>1. NewMutation(disk, row.rev) \in Mutation /\ disk \in File \cup {Unknown}
      BY <1>0, MutationType
    <3>2. [row EXCEPT !.pending = NewMutation(disk, row.rev), !.local = disk] \in Row
      BY <1>0, <3>1, PendingType
    <3>3. Unblocked(row) \in Row
      BY <1>0 DEF Unblocked, Row, Mutation
    <3> QED
      BY <1>0, <1>4, <3>2, <3>3, EmptyRowType DEF Restart
  <2>2. limited' \in BOOLEAN
    BY <1>4 DEF Restart, Shape
  <2> QED
    BY <1>4, <2>1, <2>2 DEF Restart, Shape
<1>5. ASSUME NEW hash \in File, RemoteChange(hash) PROVE Shape'
  <2>1. server' \in ServerRecord
    BY <1>0, <1>5 DEF RemoteChange, ServerRecord
  <2>2. published' \subseteq Content
    BY <1>5 DEF RemoteChange, Shape, File
  <2> QED
    BY <1>5, <2>1, <2>2 DEF RemoteChange, Shape
<1> QED
  BY <1>1, <1>2, <1>3, <1>4, <1>5

-----------------------------------------------------------------------------
(* The invariant holds at first, and whatever happens on the device's side  *)
(* of the row keeps it.                                                     *)

LEMMA EntryInvInit == Init => EntryInv
<1> SUFFICES ASSUME Init PROVE EntryInv
  OBVIOUS
<1>1. Shape
  BY InitShape
<1>2. /\ push.pc = "idle" /\ push.acked = {} /\ pull.pc = "idle" /\ rec.pc = "idle"
      /\ DOMAIN accepted = {} /\ nextId = 1 /\ up = TRUE
  BY DEF Init, PushIdle, PullIdle, RecIdle
<1>3. /\ row.pending.id = 0
      /\ server.body = server.hash /\ server.hash \in published \cup {NoFile}
      /\ server.seq = server.cursor /\ cursor = server.cursor /\ row.rev = server.rev
  <2>1. CASE row = EmptyRow /\ cursor = 0
             /\ server = [rev |-> 0, hash |-> NoFile, body |-> NoFile,
                          seq |-> 0, cursor |-> 0]
    BY <2>1 DEF EmptyRow, NoMutation
  <2>2. ASSUME NEW c \in Content, row = UpsertedRow(1, c), cursor = 1,
               published = {c},
               server = [rev |-> 1, hash |-> c, body |-> c, seq |-> 1, cursor |-> 1]
        PROVE  <1>3!:
    BY <2>2 DEF UpsertedRow, NoMutation
  <2> QED
    BY <2>1, <2>2 DEF Init
<1>4. server.cursor \in Nat /\ server.rev \in Nat /\ cursor \in Nat
  BY <1>1 DEF Shape, ServerRecord
<1>5. ~Working /\ ~Settling /\ ~Pulling /\ ~Planned /\ ~Applying
  BY <1>2 DEF Working, Settling, Pulling, Planned, Applying
<1>6. Turns /\ Ids
  BY <1>2, <1>3, <1>5 DEF Turns, Ids
<1>7. Books /\ News /\ CursorCoversOnlyApplied
  BY <1>2, <1>3, <1>4 DEF Books, News, CursorCoversOnlyApplied
<1>8. Pushed /\ Pulled
  BY <1>2, <1>5 DEF Pushed, Pulled
<1> QED
  BY <1>1, <1>6, <1>7, <1>8 DEF EntryInv

\* The numbers in the state are numbers.
LEMMA Numbers ==
    ASSUME Shape
    PROVE  /\ cursor \in Nat /\ nextId \in Nat
           /\ row.rev \in Nat /\ row.pending \in Mutation /\ row.pending.id \in Nat
           /\ server.rev \in Nat /\ server.seq \in Nat /\ server.cursor \in Nat
           /\ push.mut \in Mutation /\ push.mut.id \in Nat /\ push.rev \in Nat
           /\ push.at \in Nat /\ push.start \in Nat /\ push.acked \in SUBSET Nat
           /\ pull.rev \in Nat /\ pull.target \in Nat /\ pull.old.rev \in Nat
           /\ pull.snap.rev \in Nat /\ pull.snap.pending \in Mutation
           /\ pull.snap.pending.id \in Nat
<1>1. row \in Row /\ pull.old \in Row /\ pull.snap \in Row
  BY DEF Shape, PullRecord
<1>2. push.mut \in Mutation /\ row.pending \in Mutation /\ pull.snap.pending \in Mutation
  BY <1>1 DEF Shape, PushRecord, Row
<1>3. \A m \in Mutation : m.id \in Nat
  BY DEF Mutation
<1>4. \A r \in Row : r.rev \in Nat
  BY DEF Row
<1> QED
  BY <1>1, <1>2, <1>3, <1>4 DEF Shape, ServerRecord, PushRecord, PullRecord

\* A local write leaves the row's revision alone and queues what it had, nothing
\* or a mutation of its own.
LEMMA LocalKeeps ==
    ASSUME EntryInv, Shape',
           UNCHANGED <<cursor, push, pull, server, accepted, published>>,
           row'.rev = row.rev,
           \/ nextId' = nextId /\ row'.pending.id = row.pending.id
              /\ row'.pending.hash = row.pending.hash
           \/ nextId' = nextId /\ row'.pending.id = 0
           \/ nextId' = nextId + 1 /\ row'.pending.id = nextId,
           ~up' => push.pc = "idle" /\ pull.pc = "idle" /\ rec'.pc = "idle"
    PROVE  EntryInv'
<1>0. /\ nextId \in Nat /\ row.pending.id \in Nat /\ row.pending \in Mutation
      /\ push.mut.id \in Nat
      /\ \A i \in DOMAIN accepted : i \in Nat /\ 0 < i /\ i < nextId
  BY Numbers DEF EntryInv, Ids
<1>1. /\ Working' <=> Working
      /\ Settling' <=> Settling
      /\ Pulling' <=> Pulling
      /\ Planned' <=> Planned
      /\ Applying' <=> Applying
  BY DEF Working, Settling, Pulling, Planned, Applying
<1>2. Turns'
  BY DEF EntryInv, Turns
<1>3. Ids'
  <2>1. /\ nextId > 0 /\ row.pending.id < nextId
        /\ Working => 0 < push.mut.id /\ push.mut.id < nextId
        /\ Applying => pull.snap.pending.id < nextId
        /\ pull.snap.pending.id \in Nat
    BY Numbers DEF EntryInv, Ids
  <2>2. nextId' \in Nat /\ nextId <= nextId' /\ row'.pending.id < nextId'
    BY <1>0, <2>1
  <2>4. \A i \in DOMAIN accepted : i \in Nat /\ 0 < i /\ i < nextId'
    BY <1>0, <2>2
  <2> QED
    BY <1>0, <1>1, <2>1, <2>2, <2>4 DEF Ids
<1>4. Books' /\ CursorCoversOnlyApplied'
  BY DEF EntryInv, Books, CursorCoversOnlyApplied
<1>5. News'
  <2> SUFFICES ASSUME NEW m \in Mutation, InPlay(m)', m.id \in DOMAIN accepted
               PROVE  accepted[m.id].rev > row.rev /\ m.hash \in published \cup {NoFile}
    BY DEF News
  <2>1. CASE m = row'.pending
    <3>1. row.pending.id = m.id /\ row.pending.hash = m.hash
      BY <1>0, <2>1
    <3>2. InPlay(row.pending)
      BY DEF InPlay
    <3> QED
      BY <1>0, <3>1, <3>2 DEF EntryInv, News
  <2>2. CASE m # row'.pending
    <3>1. InPlay(m)
      BY <1>1, <2>2 DEF InPlay
    <3> QED
      BY <3>1 DEF EntryInv, News
  <2> QED
    BY <2>1, <2>2
<1>6. Pushed'
  <2>1. Working => \/ row'.pending.id = push.mut.id /\ row'.pending.hash = push.mut.hash
                   \/ row'.pending.id # push.mut.id /\ row'.pending.id \notin DOMAIN accepted
    BY <1>0 DEF EntryInv, Ids, Pushed
  <2> QED
    BY <1>1, <2>1 DEF EntryInv, Pushed
<1>7. Pulled'
  BY <1>1 DEF EntryInv, Pulled
<1> QED
  BY <1>2, <1>3, <1>4, <1>5, <1>6, <1>7 DEF EntryInv

-----------------------------------------------------------------------------
(* The push. *)

\* A step that leaves the row and the server alone, with the mutation at hand
\* or one just taken from the row.
LEMMA PushKeeps ==
    ASSUME EntryInv, Shape',
           UNCHANGED <<row, cursor, nextId, pull, server, accepted, published, up, rec>>,
           push.pc # "idle", push'.pc # "idle",
           push'.start = push.start, push'.acked = push.acked,
           Working' => \/ Working /\ push'.mut = push.mut
                       \/ push'.mut = row.pending /\ row.pending.id # 0,
           Settling' => /\ push'.mut.id \in DOMAIN accepted
                        /\ push'.rev = accepted[push'.mut.id].rev
                        /\ push'.at = accepted[push'.mut.id].at,
           push'.pc \in {"upload", "refused", "ready"} => push'.bytes = push'.mut.hash
    PROVE  EntryInv'
<1>0. row.pending \in Mutation /\ row.pending.id \in Nat /\ push.mut \in Mutation
  BY Numbers DEF EntryInv
<1>1. pull.pc = "idle"
  BY DEF EntryInv, Turns
<1>2. ~Pulling' /\ ~Planned' /\ ~Applying'
  BY <1>1 DEF Pulling, Planned, Applying
<1>3. Turns'
  BY <1>1 DEF EntryInv, Turns
<1>4. Ids'
  BY <1>0, <1>2 DEF EntryInv, Ids
<1>5. Books' /\ CursorCoversOnlyApplied'
  BY DEF EntryInv, Books, CursorCoversOnlyApplied
<1>6. News'
  <2> SUFFICES ASSUME NEW m \in Mutation, InPlay(m)', m.id \in DOMAIN accepted
               PROVE  accepted[m.id].rev > row.rev /\ m.hash \in published \cup {NoFile}
    BY DEF News
  <2>1. InPlay(m)
    BY <1>2 DEF InPlay
  <2> QED
    BY <2>1 DEF EntryInv, News
<1>7. Pushed'
  <2>1. push'.start = cursor /\ push'.acked \subseteq 0..server.cursor
        /\ (server.seq \in push'.acked => row.rev = server.rev)
    BY DEF EntryInv, Pushed
  <2>2. Working' =>
           \/ row.pending.id = push'.mut.id /\ row.pending.hash = push'.mut.hash
           \/ row.pending.id # push'.mut.id /\ row.pending.id \notin DOMAIN accepted
    BY DEF EntryInv, Pushed
  <2> QED
    BY <2>1, <2>2 DEF Pushed
<1>8. Pulled'
  BY <1>1, <1>2 DEF Pulled
<1> QED
  BY <1>3, <1>4, <1>5, <1>6, <1>7, <1>8 DEF EntryInv

\* The push ends or breaks off: only the cursor may have moved.
LEMMA PushEnds ==
    ASSUME EntryInv, Shape', push.pc # "idle", push' = PushIdle,
           UNCHANGED <<row, nextId, pull, server, accepted, published, up, rec>>,
           cursor' <= server.cursor,
           server.seq <= cursor' => row.rev = server.rev
    PROVE  EntryInv'
<1>1. pull.pc = "idle" /\ push'.pc = "idle" /\ push'.acked = {}
  BY DEF EntryInv, Turns, PushIdle
<1>2. ~Pulling' /\ ~Planned' /\ ~Applying' /\ ~Working' /\ ~Settling'
  BY <1>1 DEF Pulling, Planned, Applying, Working, Settling
<1>3. Turns' /\ Ids'
  BY <1>1, <1>2 DEF EntryInv, Turns, Ids
<1>4. Books' /\ CursorCoversOnlyApplied'
  BY DEF EntryInv, Books, CursorCoversOnlyApplied
<1>5. News'
  <2> SUFFICES ASSUME NEW m \in Mutation, InPlay(m)', m.id \in DOMAIN accepted
               PROVE  accepted[m.id].rev > row.rev /\ m.hash \in published \cup {NoFile}
    BY DEF News
  <2>1. InPlay(m)
    BY <1>2 DEF InPlay
  <2> QED
    BY <2>1 DEF EntryInv, News
<1>6. Pushed' /\ Pulled'
  BY <1>1, <1>2 DEF Pushed, Pulled
<1> QED
  BY <1>3, <1>4, <1>5, <1>6 DEF EntryInv

LEMMA PushAbortKeeps ==
    ASSUME EntryInv, Shape', push.pc # "idle", push' = PushIdle,
           UNCHANGED <<row, cursor, nextId, pull, server, accepted, published, up, rec>>
    PROVE  EntryInv'
  BY PushEnds, Numbers DEF EntryInv, Books, CursorCoversOnlyApplied

\* The checkpoint covers what was applied before the push and in it.
LEMMA PushFinishKeeps ==
    ASSUME EntryInv, PushFinish
    PROVE  Shape' /\ EntryInv'
<1> DEFINE n == Contiguous(push.start, push.acked)
<1>1. /\ push.pc = "list" /\ push.start = cursor /\ cursor \in Nat
      /\ server.cursor \in Nat /\ server.seq \in Nat /\ cursor <= server.cursor
      /\ push.acked \subseteq 0..server.cursor
      /\ server.seq \in push.acked => row.rev = server.rev
      /\ server.seq <= cursor => row.rev = server.rev
  BY Numbers DEF PushFinish, EntryInv, Pushed, Books, CursorCoversOnlyApplied
<1>2. n \in Nat /\ cursor <= n /\ n <= server.cursor /\ (cursor + 1)..n \subseteq push.acked
  BY <1>1, ContiguousIs
<1>3. cursor' = IF n > push.start THEN n ELSE cursor
  BY DEF PushFinish
<1> HIDE DEF n
<1>4. cursor' \in Nat /\ cursor' <= server.cursor
  BY <1>1, <1>2, <1>3
<1>5. ASSUME server.seq <= cursor' PROVE row.rev = server.rev
  <2>1. server.seq <= cursor \/ server.seq \in (cursor + 1)..n
    BY <1>1, <1>2, <1>3, <1>5
  <2> QED
    BY <1>1, <1>2, <2>1
<1>6. /\ push' = PushIdle
      /\ UNCHANGED <<disk, copies, event, row, nextId, rec, pull, remote, up, spent>>
      /\ wantPull' \in BOOLEAN /\ wantPush' \in BOOLEAN
  BY DEF PushFinish, EntryInv, Shape, IsPushable, IsDirty
<1>7. Shape'
  BY <1>4, <1>6, IdleTypes DEF EntryInv, Shape, remote
<1> QED
  BY <1>1, <1>4, <1>5, <1>6, <1>7, PushEnds DEF remote

LEMMA PushStartKeeps ==
    ASSUME EntryInv, Shape', PushStart
    PROVE  EntryInv'
<1>0. /\ push.pc = "idle" /\ pull.pc = "idle" /\ push'.pc = "list"
      /\ push'.start = cursor /\ push'.acked = {} /\ up
      /\ UNCHANGED <<row, cursor, nextId, rec, pull, server, accepted, published, up>>
  BY DEF PushStart, PushIdle, DrainIdle, device, remote
<1>1. ~Pulling' /\ ~Planned' /\ ~Applying' /\ ~Working' /\ ~Settling'
  BY <1>0 DEF Pulling, Planned, Applying, Working, Settling
<1>2. Turns' /\ Ids'
  BY <1>0, <1>1 DEF EntryInv, Turns, Ids
<1>3. Books' /\ CursorCoversOnlyApplied'
  BY <1>0 DEF EntryInv, Books, CursorCoversOnlyApplied
<1>4. News'
  <2> SUFFICES ASSUME NEW m \in Mutation, InPlay(m)', m.id \in DOMAIN accepted
               PROVE  accepted[m.id].rev > row.rev /\ m.hash \in published \cup {NoFile}
    BY <1>0 DEF News
  <2>1. InPlay(m)
    BY <1>0, <1>1 DEF InPlay
  <2> QED
    BY <2>1 DEF EntryInv, News
<1>5. Pushed' /\ Pulled'
  BY <1>0, <1>1 DEF Pushed, Pulled
<1> QED
  BY <1>2, <1>3, <1>4, <1>5 DEF EntryInv

LEMMA PushStepKeeps ==
    ASSUME EntryInv, Shape',
           \/ PushTake \/ PushRead \/ PushUpload \/ PushRejected \/ PushAccepted
           \/ PushPlan \/ PushApplyRetry
    PROVE  EntryInv'
<1> USE DEF device, remote
<1>0. /\ push \in PushRecord
      /\ Settling => /\ push.mut.id \in DOMAIN accepted
                     /\ push.rev = accepted[push.mut.id].rev
                     /\ push.at = accepted[push.mut.id].at
  BY DEF EntryInv, Shape, Pushed
<1>1. CASE PushTake
  <2>1. /\ push.pc = "list" /\ row.pending.id # 0
        /\ push'.pc \in {"ready", "read"} /\ push'.mut = row.pending
        /\ push'.bytes = NoFile
        /\ push'.pc = "ready" => row.pending.hash = NoFile
        /\ push'.start = push.start /\ push'.acked = push.acked
    BY <1>0, <1>1 DEF PushTake, IsPushable, IsDirty, PushRecord
  <2> QED
    BY <1>1, <2>1, PushKeeps DEF PushTake, Working, Settling
<1>2. CASE PushRead
  <2>1. /\ push.pc = "read" /\ push'.pc \in {"upload", "requeue"}
        /\ push'.mut = push.mut
        /\ push'.pc = "upload" => push'.bytes = push.mut.hash
        /\ push'.start = push.start /\ push'.acked = push.acked
    BY <1>0, <1>2 DEF PushRead, PushRecord
  <2> QED
    BY <1>2, <2>1, PushKeeps DEF PushRead, Working, Settling
<1>3. CASE PushUpload
  <2>1. /\ push.pc = "upload" /\ push'.pc \in {"refused", "ready"}
        /\ push'.mut = push.mut /\ push'.bytes = push.bytes
        /\ push.bytes = push.mut.hash
        /\ push'.start = push.start /\ push'.acked = push.acked
    BY <1>0, <1>3 DEF PushUpload, PushRecord, EntryInv, Pushed
  <2> QED
    BY <1>3, <2>1, PushKeeps DEF PushUpload, Working, Settling
<1>4. CASE PushRejected
  <2>1. /\ push.pc = "answered" /\ push'.pc = "list"
        /\ push'.start = push.start /\ push'.acked = push.acked
    BY <1>0, <1>4 DEF PushRejected, PushRecord
  <2> QED
    BY <1>4, <2>1, PushKeeps DEF PushRejected, Working, Settling
<1>5. CASE PushAccepted
  <2>1. /\ push.pc = "answered" /\ push.result = "accepted" /\ push'.pc = "plan"
        /\ push'.mut = push.mut /\ push'.rev = push.rev /\ push'.at = push.at
        /\ push'.start = push.start /\ push'.acked = push.acked
    BY <1>0, <1>5 DEF PushAccepted, PushRecord
  <2> QED
    BY <1>0, <1>5, <2>1, PushKeeps DEF PushAccepted, Working, Settling
<1>6. CASE PushPlan
  <2>1. /\ push.pc = "plan" /\ push'.pc = "apply"
        /\ push'.mut = push.mut /\ push'.rev = push.rev /\ push'.at = push.at
        /\ push'.start = push.start /\ push'.acked = push.acked
    BY <1>0, <1>6 DEF PushPlan, PushRecord
  <2> QED
    BY <1>0, <1>6, <2>1, PushKeeps DEF PushPlan, Working, Settling
<1>7. CASE PushApplyRetry
  <2>1. /\ push.pc = "apply" /\ push'.pc = "plan"
        /\ push'.mut = push.mut /\ push'.rev = push.rev /\ push'.at = push.at
        /\ push'.start = push.start /\ push'.acked = push.acked
    BY <1>0, <1>7 DEF PushApplyRetry, PushRecord
  <2> QED
    BY <1>0, <1>7, <2>1, PushKeeps DEF PushApplyRetry, Working, Settling
<1> QED
  BY <1>1, <1>2, <1>3, <1>4, <1>5, <1>6, <1>7

LEMMA PushBreaksKeeps ==
    ASSUME EntryInv, Shape', PushReadMissing \/ PushApplyGivesUp \/ PushFails
    PROVE  EntryInv'
<1>1. push.pc # "idle"
  BY DEF PushReadMissing, PushApplyGivesUp, PushFails
<1>2. PushAborts
  BY DEF PushReadMissing, PushApplyGivesUp, PushFails
<1> QED
  BY <1>1, <1>2, PushAbortKeeps DEF PushAborts, device, remote

\* The server takes a mutation it has not seen: a revision of its own.
LEMMA NewCommitKeeps ==
    ASSUME EntryInv, Shape', PushCommit, push.mut.id \notin DOMAIN accepted,
           push.mut.base = server.rev
    PROVE  EntryInv'
<1> DEFINE id == push.mut.id
<1>0. /\ push \in PushRecord /\ server.rev \in Nat /\ server.cursor \in Nat
      /\ server.seq \in Nat /\ row.rev \in Nat /\ cursor \in Nat
      /\ push.mut \in Mutation /\ row.pending \in Mutation
      /\ \A i \in DOMAIN accepted : accepted[i].rev \in Nat /\ accepted[i].at \in Nat
  BY Numbers DEF EntryInv, Shape
<1>1. /\ push.pc = "ready"
      /\ server' = [rev |-> server.rev + 1, hash |-> push.mut.hash,
                    body |-> push.bytes, seq |-> server.cursor + 1,
                    cursor |-> server.cursor + 1]
      /\ accepted' = [i \in DOMAIN accepted \cup {id} |->
                        IF i = id THEN [rev |-> server'.rev, at |-> server'.seq]
                        ELSE accepted[i]]
      /\ published' = published \cup ({push.mut.hash} \ {NoFile})
      /\ push' = [push EXCEPT !.pc = "answered", !.result = "accepted",
                              !.rev = server'.rev, !.at = server'.seq]
      /\ UNCHANGED <<row, cursor, nextId, rec, pull, up>>
  BY DEF PushCommit, device
<1>2. /\ server'.rev = server.rev + 1 /\ server'.seq = server.cursor + 1
      /\ server'.cursor = server.cursor + 1 /\ server'.hash = push.mut.hash
      /\ server'.body = push.bytes
  BY <1>1
<1>3. /\ push'.pc = "answered" /\ push'.mut = push.mut /\ push'.rev = server'.rev
      /\ push'.at = server'.seq /\ push'.start = push.start /\ push'.acked = push.acked
  BY <1>0, <1>1 DEF PushRecord
<1>4. /\ DOMAIN accepted' = DOMAIN accepted \cup {id}
      /\ accepted'[id].rev = server'.rev /\ accepted'[id].at = server'.seq
      /\ \A i \in DOMAIN accepted : i # id => accepted'[i] = accepted[i]
  BY <1>1
<1>5. Working /\ Working' /\ pull.pc = "idle"
  BY <1>1, <1>3 DEF Working, EntryInv, Turns
<1>6. ~Pulling' /\ ~Planned' /\ ~Applying'
  BY <1>1, <1>5 DEF Pulling, Planned, Applying
<1>7. Turns'
  BY <1>1, <1>3, <1>5 DEF EntryInv, Turns
<1>8. Ids'
  <2>1. id \in Nat /\ 0 < id /\ id < nextId
    BY <1>5, Numbers DEF EntryInv, Ids
  <2> QED
    BY <1>1, <1>3, <1>4, <1>5, <1>6, <2>1 DEF EntryInv, Ids
<1>9. server'.hash \in published' \cup {NoFile} /\ push.bytes = push.mut.hash
  BY <1>1, <1>2 DEF EntryInv, Pushed
<1>10. /\ row.rev <= server.rev /\ cursor <= server.cursor /\ server.seq <= server.cursor
       /\ \A i \in DOMAIN accepted :
            accepted[i].rev <= server.rev /\ accepted[i].at <= server.seq
  BY DEF EntryInv, Books
<1>11. Books'
  <2>1. /\ row'.rev <= server'.rev /\ cursor' <= server'.cursor
        /\ server'.seq <= server'.cursor
    BY <1>0, <1>1, <1>2, <1>10
  <2>2. ASSUME NEW i \in DOMAIN accepted'
        PROVE  /\ accepted'[i].rev <= server'.rev /\ accepted'[i].at <= server'.seq
               /\ accepted'[i].at = server'.seq => accepted'[i].rev = server'.rev
    <3>1. CASE i = id
      BY <1>0, <1>2, <1>4, <3>1
    <3>2. CASE i # id
      <4>1. i \in DOMAIN accepted /\ accepted'[i] = accepted[i]
        BY <1>4, <3>2
      <4>2. accepted[i].rev <= server.rev /\ accepted[i].at <= server.cursor
            /\ accepted[i].rev \in Nat /\ accepted[i].at \in Nat
        BY <1>0, <1>10, <4>1
      <4> QED
        BY <1>0, <1>2, <4>1, <4>2
    <3> QED
      BY <3>1, <3>2
  <2> QED
    BY <1>2, <1>9, <2>1, <2>2 DEF Books
<1>12. CursorCoversOnlyApplied'
  BY <1>0, <1>1, <1>2, <1>10 DEF CursorCoversOnlyApplied
<1>13. News'
  <2> SUFFICES ASSUME NEW m \in Mutation, InPlay(m)', m.id \in DOMAIN accepted'
               PROVE  /\ accepted'[m.id].rev > row.rev
                      /\ m.hash \in published' \cup {NoFile}
    BY <1>1 DEF News
  <2>1. InPlay(m)
    BY <1>1, <1>3, <1>5, <1>6 DEF InPlay
  <2>2. CASE m.id = id
    <3>1. m.hash = push.mut.hash
      BY <1>1, <1>3, <1>5, <1>6, <2>2 DEF InPlay, EntryInv, Pushed
    <3> QED
      BY <1>0, <1>1, <1>2, <1>4, <1>10, <2>2, <3>1
  <2>3. CASE m.id # id
    BY <1>1, <1>4, <2>1, <2>3 DEF EntryInv, News
  <2> QED
    BY <2>2, <2>3
<1>14. Pushed'
  <2>1. push'.start = cursor' /\ push.acked \subseteq 0..server.cursor
    BY <1>1, <1>3 DEF EntryInv, Pushed
  <2>2. push'.acked \subseteq 0..server'.cursor /\ server'.seq \notin push'.acked
    BY <1>0, <1>2, <1>3, <2>1
  <2>3. \/ row.pending.id = id /\ row.pending.hash = push.mut.hash
        \/ row.pending.id # id /\ row.pending.id \notin DOMAIN accepted'
    BY <1>4, <1>5 DEF EntryInv, Pushed
  <2> QED
    BY <1>1, <1>3, <1>4, <2>1, <2>2, <2>3 DEF Pushed
<1>15. Pulled'
  BY <1>1, <1>5, <1>6 DEF Pulled
<1> QED
  BY <1>7, <1>8, <1>11, <1>12, <1>13, <1>14, <1>15 DEF EntryInv

LEMMA PushCommitKeeps ==
    ASSUME EntryInv, Shape', PushCommit
    PROVE  EntryInv'
<1>0. push \in PushRecord /\ push.pc = "ready"
  BY DEF EntryInv, Shape, PushCommit
<1>1. ASSUME push.mut.id \notin DOMAIN accepted, push.mut.base = server.rev
      PROVE  EntryInv'
  BY <1>1, NewCommitKeeps
<1>2. ASSUME push.mut.id \in DOMAIN accepted PROVE EntryInv'
  <2>1. /\ push' = [push EXCEPT !.pc = "answered", !.result = "accepted",
                                !.rev = accepted[push.mut.id].rev,
                                !.at = accepted[push.mut.id].at]
        /\ UNCHANGED <<row, cursor, nextId, rec, pull, server, accepted, published, up>>
    BY <1>2 DEF PushCommit, remote, device
  <2>2. /\ push'.pc = "answered" /\ push'.mut = push.mut
        /\ push'.rev = accepted[push.mut.id].rev /\ push'.at = accepted[push.mut.id].at
        /\ push'.start = push.start /\ push'.acked = push.acked
    BY <1>0, <2>1 DEF PushRecord
  <2> QED
    BY <1>0, <1>2, <2>1, <2>2, PushKeeps DEF Working, Settling
<1>3. ASSUME push.mut.id \notin DOMAIN accepted, push.mut.base # server.rev
      PROVE  EntryInv'
  <2>1. /\ push' = [push EXCEPT !.pc = "answered", !.result = "stale"]
        /\ UNCHANGED <<row, cursor, nextId, rec, pull, server, accepted, published, up>>
    BY <1>3 DEF PushCommit, remote, device
  <2>2. /\ push'.pc = "answered" /\ push'.result = "stale" /\ push'.mut = push.mut
        /\ push'.start = push.start /\ push'.acked = push.acked
    BY <1>0, <2>1 DEF PushRecord
  <2> QED
    BY <1>0, <2>1, <2>2, PushKeeps DEF Working, Settling
<1> QED
  BY <1>1, <1>2, <1>3

\* The push queues what it read anew, or puts back what it took.
LEMMA PushWrites ==
    ASSUME EntryInv, Shape', PushRequeue \/ PushBlock
    PROVE  EntryInv'
<1>0. /\ push \in PushRecord /\ row \in Row /\ nextId \in Nat /\ push.mut \in Mutation
      /\ NewMutation(push.bytes, push.base) \in Mutation
      /\ [push.mut EXCEPT !.blocked = TRUE] \in Mutation
      /\ push.bytes \in File \cup {Unknown}
  BY MutationType DEF EntryInv, Shape, PushRecord, Mutation
<1>1. /\ row'.rev = row.rev
      /\ \/ nextId' = nextId + 1 /\ row'.pending.id = nextId
         \/ /\ nextId' = nextId /\ row'.pending.id = push.mut.id
            /\ row'.pending.hash = push.mut.hash
  <2>1. CASE PushRequeue
    <3> DEFINE m == NewMutation(push.bytes, push.base)
    <3>0. row' = [row EXCEPT !.pending = m, !.local = push.bytes]
      BY <2>1 DEF PushRequeue
    <3> HIDE DEF m
    <3>2. m \in Mutation
      BY <1>0 DEF m
    <3>3. row \in Row
      BY <1>0
    <3>4. row'.rev = row.rev
      BY <3>0, <3>3 DEF Row
    <3>5. row'.pending = m
      BY <3>0, <3>3 DEF Row
    <3>1. row'.rev = row.rev /\ row'.pending = m
      BY <3>4, <3>5
    <3> USE DEF m
    <3> QED
      BY <2>1, <3>1 DEF PushRequeue, NewMutation
  <2>2. CASE PushBlock
    <3>1. row'.rev = row.rev /\ row'.pending = [push.mut EXCEPT !.blocked = TRUE]
      BY <1>0, <2>2, PendingType DEF PushBlock
    <3> QED
      BY <1>0, <2>2, <3>1 DEF PushBlock, Mutation
  <2> QED
    BY <2>1, <2>2
<1>2. /\ Working /\ push'.pc = "list"
      /\ push'.start = push.start /\ push'.acked = push.acked
      /\ UNCHANGED <<cursor, rec, pull, server, accepted, published, up>>
  BY <1>0 DEF PushRequeue, PushBlock, PushRecord, Working, remote
<1>3. pull.pc = "idle" /\ up
  BY <1>2 DEF EntryInv, Turns, Working
<1>4. ~Pulling' /\ ~Planned' /\ ~Applying' /\ ~Working' /\ ~Settling'
  BY <1>2, <1>3 DEF Pulling, Planned, Applying, Working, Settling
<1>5. Turns'
  BY <1>2, <1>3 DEF EntryInv, Turns
<1>6. Ids'
  <2>1. /\ nextId \in Nat /\ 0 < nextId /\ 0 < push.mut.id /\ push.mut.id < nextId
        /\ \A i \in DOMAIN accepted : i \in Nat /\ 0 < i /\ i < nextId
        /\ push.mut.id \in Nat
    BY <1>0, <1>2, Numbers DEF EntryInv, Ids
  <2>2. nextId' \in Nat /\ nextId <= nextId' /\ row'.pending.id < nextId'
    BY <1>1, <2>1
  <2>3. \A i \in DOMAIN accepted : i \in Nat /\ 0 < i /\ i < nextId'
    BY <2>1, <2>2
  <2> QED
    BY <1>2, <1>4, <2>1, <2>2, <2>3 DEF Ids
<1>7. Books' /\ CursorCoversOnlyApplied'
  BY <1>1, <1>2 DEF EntryInv, Books, CursorCoversOnlyApplied
<1>8. News'
  <2> SUFFICES ASSUME NEW m \in Mutation, InPlay(m)', m.id \in DOMAIN accepted
               PROVE  accepted[m.id].rev > row.rev /\ m.hash \in published \cup {NoFile}
    BY <1>1, <1>2 DEF News
  <2>1. m = row'.pending
    BY <1>4 DEF InPlay
  <2>2. nextId \notin DOMAIN accepted
    BY <1>0 DEF EntryInv, Ids
  <2>3. m.id = push.mut.id /\ m.hash = push.mut.hash
    BY <1>1, <2>1, <2>2
  <2>4. InPlay(push.mut)
    BY <1>2 DEF InPlay
  <2> QED
    BY <1>0, <2>3, <2>4 DEF EntryInv, News
<1>9. Pushed' /\ Pulled'
  <2>1. /\ push'.start = cursor /\ push'.acked \subseteq 0..server.cursor
        /\ server.seq \in push'.acked => row.rev = server.rev
    BY <1>2 DEF EntryInv, Pushed, Working
  <2>2. Pushed'
    BY <1>1, <1>2, <1>4, <2>1 DEF Pushed
  <2> QED
    BY <1>2, <1>3, <1>4, <2>2 DEF Pulled
<1> QED
  BY <1>5, <1>6, <1>7, <1>8, <1>9 DEF EntryInv

\* The row takes the revision of an acceptance, which is the latest when the
\* push has been told of all there is.
LEMMA PushApplyKeeps ==
    ASSUME EntryInv, Shape', PushApply
    PROVE  EntryInv'
<1>0. /\ push \in PushRecord /\ row.rev \in Nat /\ push.mut \in Mutation
      /\ row.pending \in Mutation
      /\ server.rev \in Nat /\ server.seq \in Nat /\ server.cursor \in Nat
      /\ cursor \in Nat /\ push.rev \in Nat /\ push.at \in Nat
  BY Numbers DEF EntryInv, Shape
<1>1. /\ push.pc \in {"plan", "apply"} /\ row' = AcceptedRow
      /\ push'.pc = "list" /\ push'.start = push.start
      /\ push'.acked = push.acked \cup {push.at}
      /\ UNCHANGED <<cursor, nextId, rec, pull, server, accepted, published, up>>
  BY <1>0 DEF PushApply, PushRecord, remote
<1>2. Working /\ Settling /\ InPlay(push.mut)
  BY <1>1 DEF Working, Settling, InPlay
<1>3. pull.pc = "idle" /\ up
  BY <1>1 DEF EntryInv, Turns
<1>4. ~Pulling' /\ ~Planned' /\ ~Applying' /\ ~Working' /\ ~Settling'
  BY <1>1, <1>3 DEF Pulling, Planned, Applying, Working, Settling
<1>5. /\ push.mut.id \in DOMAIN accepted /\ push.rev = accepted[push.mut.id].rev
      /\ push.at = accepted[push.mut.id].at
  BY <1>2 DEF EntryInv, Pushed
<1>6. /\ push.rev > row.rev /\ push.rev <= server.rev /\ push.at <= server.seq
      /\ push.at = server.seq => push.rev = server.rev
  BY <1>0, <1>2, <1>5 DEF EntryInv, News, Books
<1>7. /\ row'.rev = push.rev
      /\ \/ row'.pending.id = 0
         \/ NewerPending /\ row'.pending.id = row.pending.id
  <2>1. [row.pending EXCEPT !.base = push.rev].id = row.pending.id
    BY <1>0 DEF Mutation
  <2>2. /\ row'.rev = push.rev
        /\ row'.pending = IF NewerPending THEN [row.pending EXCEPT !.base = push.rev]
                          ELSE NoMutation
    BY <1>1 DEF AcceptedRow
  <2> QED
    BY <2>1, <2>2 DEF NoMutation
<1>8. row'.pending.id \notin DOMAIN accepted
  BY <1>2, <1>7 DEF EntryInv, Ids, Pushed, NewerPending
<1>9. server.seq > cursor /\ server.seq \notin push.acked
  BY <1>0, <1>6 DEF EntryInv, CursorCoversOnlyApplied, Pushed
<1>10. Turns'
  BY <1>1, <1>3 DEF EntryInv, Turns
<1>11. Ids'
  BY <1>1, <1>4, <1>7 DEF EntryInv, Ids
<1>12. Books' /\ CursorCoversOnlyApplied'
  BY <1>0, <1>1, <1>6, <1>7, <1>9 DEF EntryInv, Books, CursorCoversOnlyApplied
<1>13. News'
  BY <1>1, <1>4, <1>8 DEF News, InPlay
<1>14. Pushed'
  <2>1. server.seq <= server.cursor /\ push.acked \subseteq 0..server.cursor
    BY DEF EntryInv, Books, Pushed
  <2>2. push'.acked \subseteq 0..server.cursor
    BY <1>0, <1>1, <1>6, <2>1
  <2>3. server.seq \in push'.acked => push.rev = server.rev
    BY <1>1, <1>6, <1>9
  <2>4. push'.start = cursor
    BY <1>1 DEF EntryInv, Pushed
  <2> QED
    BY <1>1, <1>4, <1>7, <2>2, <2>3, <2>4 DEF Pushed
<1>15. Pulled'
  BY <1>1, <1>3, <1>4 DEF Pulled
<1> QED
  BY <1>10, <1>11, <1>12, <1>13, <1>14, <1>15 DEF EntryInv

-----------------------------------------------------------------------------
(* The pull. *)

\* A step that keeps the row's revision, and its pending mutation or nothing.
LEMMA PullMoves ==
    ASSUME EntryInv, Shape', pull.pc # "idle", pull'.pc # "idle",
           UNCHANGED <<cursor, nextId, push, server, accepted, published, up, rec>>,
           row'.rev = row.rev,
           row'.pending = row.pending \/ row'.pending.id = 0,
           pull'.rev = pull.rev, pull'.target = pull.target, pull'.hash = pull.hash,
           Pulling' => Pulling,
           Planned' => pull'.old.rev = row.rev,
           Applying' => \/ pull'.snap = row
                        \/ Applying /\ pull'.snap = pull.snap,
           pull'.pc = "checkpoint" => (server.seq <= pull.target => row.rev = server.rev)
    PROVE  EntryInv'
<1>1. push.pc = "idle" /\ push.acked = {} /\ up
  BY DEF EntryInv, Turns
<1>2. ~Working /\ ~Working' /\ ~Settling /\ ~Settling'
  BY <1>1 DEF Working, Settling
<1>3. Turns'
  BY <1>1 DEF EntryInv, Turns
<1>4. Ids'
  BY <1>2 DEF EntryInv, Ids
<1>5. Books' /\ CursorCoversOnlyApplied'
  BY DEF EntryInv, Books, CursorCoversOnlyApplied
<1>6. News'
  <2> SUFFICES ASSUME NEW m \in Mutation, InPlay(m)', m.id \in DOMAIN accepted
               PROVE  accepted[m.id].rev > row.rev /\ m.hash \in published \cup {NoFile}
    BY DEF News
  <2>1. m.id # 0
    BY DEF EntryInv, Ids
  <2>2. InPlay(m)
    BY <1>2, <2>1 DEF InPlay
  <2> QED
    BY <2>2 DEF EntryInv, News
<1>7. Pushed'
  BY <1>1, <1>2 DEF Pushed
<1>8. Pulled'
  <2>1. cursor <= pull.target /\ pull.target <= server.cursor
    BY DEF EntryInv, Pulled
  <2>2. Pulling' => /\ pull'.rev <= server.rev
                    /\ server.seq <= pull'.target => pull'.rev = server.rev
                    /\ pull'.hash \in published \cup {NoFile}
    BY DEF EntryInv, Pulled
  <2>3. Applying' => pull'.snap.rev = row.rev
    BY DEF EntryInv, Pulled
  <2> QED
    BY <2>1, <2>2, <2>3 DEF Pulled
<1> QED
  BY <1>3, <1>4, <1>5, <1>6, <1>7, <1>8 DEF EntryInv

\* The pull ends or breaks off: the row is what it was or what it was before.
LEMMA PullEnds ==
    ASSUME EntryInv, Shape', pull.pc # "idle", pull' = PullIdle,
           UNCHANGED <<nextId, push, server, accepted, published, up, rec>>,
           row'.rev = row.rev,
           \/ row'.pending = row.pending
           \/ Applying /\ row'.pending = pull.snap.pending,
           cursor' <= server.cursor,
           server.seq <= cursor' => row.rev = server.rev
    PROVE  EntryInv'
<1>1. push.pc = "idle" /\ push.acked = {} /\ up /\ pull'.pc = "idle"
  BY DEF EntryInv, Turns, PullIdle
<1>2. ~Working /\ ~Working' /\ ~Settling' /\ ~Pulling' /\ ~Planned' /\ ~Applying'
  BY <1>1 DEF Working, Settling, Pulling, Planned, Applying
<1>3. Turns'
  BY <1>1 DEF EntryInv, Turns
<1>4. Ids'
  BY <1>2 DEF EntryInv, Ids
<1>5. Books' /\ CursorCoversOnlyApplied'
  BY DEF EntryInv, Books, CursorCoversOnlyApplied
<1>6. News'
  <2> SUFFICES ASSUME NEW m \in Mutation, InPlay(m)', m.id \in DOMAIN accepted
               PROVE  accepted[m.id].rev > row.rev /\ m.hash \in published \cup {NoFile}
    BY DEF News
  <2>1. InPlay(m)
    BY <1>2 DEF InPlay
  <2> QED
    BY <2>1 DEF EntryInv, News
<1>7. Pushed' /\ Pulled'
  BY <1>1, <1>2 DEF Pushed, Pulled
<1> QED
  BY <1>3, <1>4, <1>5, <1>6, <1>7 DEF EntryInv

LEMMA PullFetchKeeps ==
    ASSUME EntryInv, Shape', PullFetch
    PROVE  EntryInv'
<1>0. /\ server.rev \in Nat /\ server.seq \in Nat /\ server.cursor \in Nat
      /\ cursor \in Nat
  BY Numbers DEF EntryInv
<1>1. /\ push.pc = "idle" /\ pull.pc = "idle" /\ up /\ push.acked = {}
      /\ UNCHANGED <<row, cursor, nextId, rec, push, server, accepted, published, up>>
  BY DEF PullFetch, DrainIdle, device, remote, EntryInv, Turns
<1>2. \/ /\ pull'.pc = "planned" /\ pull'.rev = server.rev /\ pull'.hash = server.hash
         /\ pull'.target = server.cursor
      \/ /\ pull'.pc = "checkpoint" /\ pull'.target = server.cursor
         /\ server.seq <= cursor
  BY <1>0 DEF PullFetch, PullIdle
<1>3. ~Working /\ ~Working' /\ ~Settling' /\ ~Planned' /\ ~Applying'
  BY <1>1, <1>2 DEF Working, Settling, Pulling, Planned, Applying
<1>4. Turns' /\ Ids'
  BY <1>1, <1>3 DEF EntryInv, Turns, Ids
<1>5. Books' /\ CursorCoversOnlyApplied'
  BY <1>1 DEF EntryInv, Books, CursorCoversOnlyApplied
<1>6. News'
  <2> SUFFICES ASSUME NEW m \in Mutation, InPlay(m)', m.id \in DOMAIN accepted
               PROVE  accepted[m.id].rev > row.rev /\ m.hash \in published \cup {NoFile}
    BY <1>1 DEF News
  <2>1. InPlay(m)
    BY <1>1, <1>3 DEF InPlay
  <2> QED
    BY <2>1 DEF EntryInv, News
<1>7. Pushed'
  BY <1>1, <1>3 DEF Pushed
<1>8. Pulled'
  <2>1. /\ cursor <= server.cursor /\ server.hash \in published \cup {NoFile}
        /\ server.seq <= cursor => row.rev = server.rev
    BY DEF EntryInv, Books, CursorCoversOnlyApplied
  <2> QED
    BY <1>0, <1>1, <1>2, <1>3, <2>1 DEF Pulled, Pulling
<1> QED
  BY <1>4, <1>5, <1>6, <1>7, <1>8 DEF EntryInv

\* The row takes the revision that was fetched: the latest up to the target.
LEMMA PullStoreKeeps ==
    ASSUME EntryInv, Shape', PullStore
    PROVE  EntryInv'
<1>0. /\ pull \in PullRecord /\ server.rev \in Nat /\ server.seq \in Nat
      /\ server.cursor \in Nat /\ cursor \in Nat /\ pull.target \in Nat
  BY Numbers DEF EntryInv, Shape
<1>1. /\ pull.pc = "store" /\ pull'.pc = "checkpoint" /\ pull'.target = pull.target
      /\ row'.rev = pull.rev /\ row'.pending.id = 0
      /\ UNCHANGED <<cursor, nextId, rec, push, server, accepted, published, up>>
  BY <1>0 DEF PullStore, PullRecord, UpsertedRow, NoMutation, remote
<1>2. push.pc = "idle" /\ up /\ push.acked = {}
  BY <1>1 DEF EntryInv, Turns
<1>3. /\ ~Working' /\ ~Settling' /\ ~Planned' /\ ~Applying' /\ ~Pulling'
      /\ Pulling
  BY <1>1, <1>2 DEF Working, Settling, Pulling, Planned, Applying
<1>4. /\ cursor <= pull.target /\ pull.target <= server.cursor
      /\ pull.rev <= server.rev
      /\ server.seq <= pull.target => pull.rev = server.rev
  BY <1>1, <1>3 DEF EntryInv, Pulled
<1>5. Turns' /\ Ids'
  BY <1>1, <1>2, <1>3 DEF EntryInv, Turns, Ids
<1>6. Books' /\ CursorCoversOnlyApplied'
  BY <1>0, <1>1, <1>4 DEF EntryInv, Books, CursorCoversOnlyApplied
<1>7. News'
  <2>1. 0 \notin DOMAIN accepted
    BY DEF EntryInv, Ids
  <2> QED
    BY <1>1, <1>3, <2>1 DEF News, InPlay
<1>8. Pushed' /\ Pulled'
  BY <1>1, <1>2, <1>3, <1>4 DEF Pushed, Pulled
<1> QED
  BY <1>5, <1>6, <1>7, <1>8 DEF EntryInv

\* Releasing the path and clearing the conflict leave the revision alone.
LEMMA ReleaseKeeps ==
    ASSUME EntryInv, Planned
    PROVE  LET r == PathReleased(ConflictCleared) IN
             /\ r.rev = row.rev
             /\ r.pending = row.pending \/ r.pending.id = 0
             /\ r.pending # row.pending => \/ pull.keep
                                           \/ pull.hash = NoFile
<1>1. row \in Row /\ pull.old.rev = row.rev
  BY DEF EntryInv, Shape, Pulled
<1>2. NoMutation \in Mutation /\ NoMutation.id = 0
  BY IdleTypes
<1>3. [row EXCEPT !.pending = NoMutation].rev = row.rev
      /\ [row EXCEPT !.pending = NoMutation].pending = NoMutation
  BY <1>1 DEF Row
<1>4. /\ ConflictCleared.rev = row.rev
      /\ \/ ConflictCleared = row
         \/ pull.keep /\ ConflictCleared.pending = NoMutation
  BY <1>3 DEF ConflictCleared
<1>5. \/ PathReleased(ConflictCleared) = ConflictCleared
      \/ /\ pull.hash = NoFile
         /\ PathReleased(ConflictCleared)
              = UpsertedRow(pull.old.rev, CombinedHash(pull.old))
  BY DEF PathReleased
<1> QED
  BY <1>1, <1>2, <1>4, <1>5 DEF UpsertedRow

LEMMA PullStepKeeps ==
    ASSUME EntryInv, Shape',
           \/ PullPlan \/ PullPrepare \/ PullInspect \/ PullBegin \/ PullCopy \/ PullVault
    PROVE  EntryInv'
<1> USE DEF device, remote
<1>0. /\ pull \in PullRecord /\ row.rev \in Nat /\ server.rev \in Nat
      /\ pull.rev \in Nat /\ server.seq \in Nat /\ pull.target \in Nat
  BY Numbers DEF EntryInv, Shape
<1>1. CASE PullPlan
  <2>1. /\ pull.pc = "planned"
        /\ pull'.rev = pull.rev /\ pull'.target = pull.target /\ pull'.hash = pull.hash
        /\ \/ pull'.pc = "checkpoint" /\ pull.rev < row.rev
           \/ pull'.pc = "prepare" /\ pull'.old = row
    <3>1. CASE pull.rev < row.rev
      BY <1>0, <1>1, <3>1 DEF PullPlan, PullRecord
    <3>2. CASE ~(pull.rev < row.rev)
      <4> DEFINE b == AlreadyApplied
      <4>1. pull' = [pull EXCEPT !.pc = "prepare", !.skip = b, !.old = row]
        BY <1>1, <3>2 DEF PullPlan
      <4> HIDE DEF b
      <4> QED
        BY <1>0, <1>1, <4>1 DEF PullPlan, PullRecord
    <3> QED
      BY <3>1, <3>2
  <2>2. row.rev <= server.rev /\ (server.seq <= pull.target => pull.rev = server.rev)
    BY <2>1 DEF EntryInv, Books, Pulled, Pulling
  <2>3. pull'.pc = "checkpoint" => ~(server.seq <= pull.target)
    BY <1>0, <2>1, <2>2
  <2> QED
    BY <1>1, <2>1, <2>3, PullMoves DEF PullPlan, Pulling, Planned, Applying
<1>2. CASE PullPrepare
  <2>1. /\ pull.pc = "prepare" /\ pull'.pc \in {"inspect", "begin"}
        /\ pull'.rev = pull.rev /\ pull'.target = pull.target /\ pull'.hash = pull.hash
        /\ pull'.old = pull.old
    BY <1>0, <1>2 DEF PullPrepare, PullRecord
  <2>2. pull.old.rev = row.rev
    BY <2>1 DEF EntryInv, Pulled, Planned, Pulling
  <2> QED
    BY <1>2, <2>1, <2>2, PullMoves DEF PullPrepare, Pulling, Planned, Applying
<1>3. CASE PullInspect
  <2> DEFINE b == ~AlreadyRemote
             c == IF ~AlreadyRemote /\ pull.pend.hash # NoFile THEN disk ELSE NoFile
  <2>0. pull' = [pull EXCEPT !.pc = "begin", !.keep = b, !.copy = c]
    BY <1>3 DEF PullInspect
  <2> HIDE DEF b, c
  <2>1. /\ pull.pc = "inspect" /\ pull'.pc = "begin"
        /\ pull'.rev = pull.rev /\ pull'.target = pull.target /\ pull'.hash = pull.hash
        /\ pull'.old = pull.old
    BY <1>0, <1>3, <2>0 DEF PullInspect, PullRecord
  <2>2. pull.old.rev = row.rev
    BY <2>1 DEF EntryInv, Pulled, Planned, Pulling
  <2> QED
    BY <1>3, <2>1, <2>2, PullMoves DEF PullInspect, Pulling, Planned, Applying
<1>4. CASE PullBegin
  <2>1. /\ pull.pc = "begin" /\ pull'.pc \in {"copy", "vault"}
        /\ pull'.rev = pull.rev /\ pull'.target = pull.target /\ pull'.hash = pull.hash
        /\ pull'.old = pull.old /\ pull'.snap = row
    BY <1>0, <1>4 DEF PullBegin, PullRecord
  <2>2. Planned
    BY <2>1 DEF Planned, Pulling
  <2>3. pull.old.rev = row.rev
    BY <2>2 DEF EntryInv, Pulled
  <2>4. row' = row \/ row' = PathReleased(ConflictCleared)
    BY <1>4 DEF PullBegin
  <2>5. row'.rev = row.rev /\ (row'.pending = row.pending \/ row'.pending.id = 0)
    BY <2>2, <2>4, ReleaseKeeps
  <2> QED
    BY <1>4, <2>1, <2>3, <2>5, PullMoves DEF PullBegin, Pulling, Planned, Applying
<1>5. CASE PullCopy
  <2>1. /\ pull.pc = "copy" /\ pull'.pc = "vault"
        /\ pull'.rev = pull.rev /\ pull'.target = pull.target /\ pull'.hash = pull.hash
        /\ pull'.old = pull.old /\ pull'.snap = pull.snap
    BY <1>0, <1>5 DEF PullCopy, PullRecord
  <2>2. Planned
    BY <2>1 DEF Planned, Pulling
  <2>3. pull.old.rev = row.rev
    BY <2>2 DEF EntryInv, Pulled
  <2>4. row' = PathReleased(ConflictCleared)
    BY <1>5 DEF PullCopy
  <2>5. row'.rev = row.rev /\ (row'.pending = row.pending \/ row'.pending.id = 0)
    BY <2>2, <2>4, ReleaseKeeps
  <2> QED
    BY <1>5, <2>1, <2>3, <2>5, PullMoves DEF PullCopy, Pulling, Planned, Applying
<1>6. CASE PullVault
  <2>1. /\ pull.pc = "vault" /\ pull'.pc = "store"
        /\ pull'.rev = pull.rev /\ pull'.target = pull.target /\ pull'.hash = pull.hash
        /\ pull'.old = pull.old /\ pull'.snap = pull.snap
    BY <1>0, <1>6 DEF PullVault, PullRecord
  <2>2. pull.old.rev = row.rev
    BY <2>1 DEF EntryInv, Pulled, Planned, Pulling
  <2> QED
    BY <1>6, <2>1, <2>2, PullMoves DEF PullVault, Pulling, Planned, Applying
<1> QED
  BY <1>1, <1>2, <1>3, <1>4, <1>5, <1>6

LEMMA PullOverKeeps ==
    ASSUME EntryInv, Shape', PullCheckpoint \/ PullFails \/ PullVaultFails
    PROVE  EntryInv'
<1> USE DEF device, remote
<1>0. /\ cursor \in Nat /\ server.cursor \in Nat /\ pull.target \in Nat
      /\ server.seq \in Nat
      /\ cursor <= server.cursor /\ (server.seq <= cursor => row.rev = server.rev)
  BY Numbers DEF EntryInv, Books, CursorCoversOnlyApplied
<1>1. CASE PullCheckpoint
  <2>1. /\ pull.target <= server.cursor
        /\ server.seq <= pull.target => row.rev = server.rev
    BY <1>1 DEF PullCheckpoint, EntryInv, Pulled
  <2>2. cursor' <= server.cursor /\ (server.seq <= cursor' => row.rev = server.rev)
    BY <1>0, <1>1, <2>1 DEF PullCheckpoint
  <2> QED
    BY <1>1, <2>2, PullEnds DEF PullCheckpoint
<1>2. CASE PullFails
  BY <1>0, <1>2, PullEnds DEF PullFails
<1>3. CASE PullVaultFails
  <2>1. Applying /\ pull.snap.rev = row.rev
    BY <1>3 DEF PullVaultFails, Applying, EntryInv, Pulled
  <2> QED
    BY <1>0, <1>3, <2>1, PullEnds DEF PullVaultFails
<1> QED
  BY <1>1, <1>2, <1>3

-----------------------------------------------------------------------------
(* The recorder, the user, the other devices, crash and restart. *)

LEMMA LocalStepKeeps ==
    ASSUME EntryInv, Shape',
           \/ Recorder \/ PolicyUpdated \/ Notify \/ Restart \/ UserRemove
           \/ \E c \in Content : UserWrite(c)
    PROVE  EntryInv'
<1> USE DEF device, drain, remote
<1>0. /\ row \in Row /\ row.rev \in Nat /\ row.pending \in Mutation
      /\ rec \in RecRecord /\ nextId \in Nat /\ disk \in File
      /\ NoFile \in File /\ NoMutation \in Mutation /\ NoMutation.id = 0
      /\ ~up => push.pc = "idle" /\ pull.pc = "idle" /\ rec.pc = "idle"
  BY Numbers, IdleTypes DEF EntryInv, Shape, Turns
<1>1. ASSUME NEW m \in Mutation, NEW l \in File \cup {Unknown}
      PROVE  /\ [row EXCEPT !.pending = m].rev = row.rev
             /\ [row EXCEPT !.pending = m].pending = m
             /\ [row EXCEPT !.pending = m, !.local = l].rev = row.rev
             /\ [row EXCEPT !.pending = m, !.local = l].pending = m
  BY <1>0 DEF Row
<1>2. EmptyRow.rev = 0 /\ EmptyRow.pending.id = 0
  BY DEF EmptyRow, NoMutation
<1>3. /\ Unblocked(row).rev = row.rev
      /\ Unblocked(row).pending.id = row.pending.id
      /\ Unblocked(row).pending.hash = row.pending.hash
  BY <1>0 DEF Unblocked, Row, Mutation
<1>4. ASSUME UNCHANGED <<row, nextId, cursor, push, pull, server, accepted, published>>,
             up' = up, up \/ rec'.pc = "idle"
      PROVE  EntryInv'
  BY <1>0, <1>4, LocalKeeps
<1>5. CASE RecordDrop
  BY <1>4, <1>5 DEF RecordDrop
<1>6. CASE RecordRead
  BY <1>4, <1>6 DEF RecordRead
<1>7. CASE RecordHashed
  BY <1>0, <1>4, <1>7 DEF RecordHashed
<1>8. CASE RecordUpsert
  <2> DEFINE m == NewMutation(rec.hash, rec.base)
  <2>1. m \in Mutation /\ m.id = nextId /\ rec.hash \in File \cup {Unknown}
    BY <1>0, MutationType DEF RecRecord, NewMutation
  <2>2. row' = [row EXCEPT !.pending = m, !.local = rec.hash] /\ nextId' = nextId + 1
        /\ UNCHANGED <<cursor, push, pull, server, accepted, published, up>>
        /\ rec.pc = "encrypt"
    BY <1>8 DEF RecordUpsert
  <2> HIDE DEF m
  <2>3. row'.rev = row.rev /\ row'.pending = m
    BY <1>1, <2>1, <2>2
  <2> QED
    BY <1>0, <2>1, <2>2, <2>3, LocalKeeps
<1>9. CASE RecordDelete
  <2>1. /\ up' = up /\ up /\ nextId' = nextId
        /\ UNCHANGED <<cursor, push, pull, server, accepted, published>>
        /\ \/ row' = row
           \/ row' = EmptyRow /\ row.rev = 0
           \/ row' = [row EXCEPT !.pending = NoMutation, !.local = NoFile]
    BY <1>9 DEF RecordDelete
  <2>2. /\ row'.rev = row.rev
        /\ row'.pending = row.pending \/ row'.pending.id = 0
    <3>1. CASE row' = [row EXCEPT !.pending = NoMutation, !.local = NoFile]
      <4>1. NoFile \in File \cup {Unknown}
        BY <1>0
      <4>2. row'.rev = row.rev /\ row'.pending = NoMutation
        BY <1>0, <3>1 DEF Row
      <4> QED
        BY <1>0, <4>2
    <3> QED
      BY <1>2, <2>1, <3>1
  <2> QED
    BY <2>1, <2>2, LocalKeeps
<1>10. CASE RecordDeleteQueued
  <2> DEFINE m == NewMutation(NoFile, rec.base)
  <2>1. m \in Mutation /\ m.id = nextId
    BY <1>0, MutationType DEF RecRecord, NewMutation
  <2>2. row' = [row EXCEPT !.pending = m] /\ nextId' = nextId + 1
        /\ UNCHANGED <<cursor, push, pull, server, accepted, published, up>>
        /\ rec.pc = "encryptDelete"
    BY <1>10 DEF RecordDeleteQueued
  <2> HIDE DEF m
  <2>3. row'.rev = row.rev /\ row'.pending = m
    BY <1>0, <2>1, <2>2 DEF Row
  <2> QED
    BY <1>0, <2>1, <2>2, <2>3, LocalKeeps
<1>11. CASE PolicyUpdated
  <2>1. /\ up /\ UNCHANGED <<nextId, cursor, push, pull, server, accepted, published, up, rec>>
        /\ row' = Unblocked(row)
    BY <1>11 DEF PolicyUpdated
  <2> HIDE DEF Unblocked
  <2> QED
    BY <1>3, <2>1, LocalKeeps
<1>12. CASE Notify
  BY <1>4, <1>12 DEF Notify
<1>13. CASE UserRemove
  BY <1>0, <1>4, <1>13 DEF UserRemove
<1>14. ASSUME NEW c \in Content, UserWrite(c) PROVE EntryInv'
  BY <1>0, <1>4, <1>14 DEF UserWrite
<1>15. CASE Restart
  <2> DEFINE m == NewMutation(disk, row.rev)
  <2>1. m \in Mutation /\ m.id = nextId /\ disk \in File \cup {Unknown}
    BY <1>0, MutationType DEF NewMutation
  <2>2. /\ up' /\ UNCHANGED <<cursor, push, pull, server, accepted, published>>
        /\ \/ /\ row' = [row EXCEPT !.pending = m, !.local = disk]
              /\ nextId' = nextId + 1
           \/ row' = EmptyRow /\ row.rev = 0 /\ nextId' = nextId
           \/ row' = Unblocked(row) /\ nextId' = nextId
    BY <1>15 DEF Restart
  <2> HIDE DEF m
  <2>3. CASE row' = [row EXCEPT !.pending = m, !.local = disk] /\ nextId' = nextId + 1
    <3>1. row'.rev = row.rev /\ row'.pending = m
      BY <1>0, <2>1, <2>3 DEF Row
    <3> QED
      BY <2>1, <2>2, <2>3, <3>1, LocalKeeps
  <2>4. CASE row' = EmptyRow /\ row.rev = 0 /\ nextId' = nextId
    BY <1>2, <2>2, <2>4, LocalKeeps
  <2>5. CASE row' = Unblocked(row) /\ nextId' = nextId
    BY <1>3, <2>2, <2>5, LocalKeeps
  <2> QED
    BY <2>2, <2>3, <2>4, <2>5
<1> QED
  BY <1>5, <1>6, <1>7, <1>8, <1>9, <1>10, <1>11, <1>12, <1>13, <1>14, <1>15
  DEF Recorder

\* A process that dies leaves the row, perhaps with the mutation it was queueing.
LEMMA CrashKeeps ==
    ASSUME EntryInv, Shape', Crash
    PROVE  EntryInv'
<1>0. /\ row \in Row /\ nextId \in Nat /\ row.pending.id \in Nat
      /\ rec.hash \in File /\ rec.base \in Nat
  BY Numbers DEF EntryInv, Shape, RecRecord
<1>1. /\ push' = PushIdle /\ pull' = PullIdle /\ rec' = RecIdle
      /\ push'.pc = "idle" /\ push'.acked = {} /\ pull'.pc = "idle" /\ rec'.pc = "idle"
      /\ UNCHANGED <<cursor, server, accepted, published>>
  BY DEF Crash, remote, PushIdle, PullIdle, RecIdle
<1>2. ~Working' /\ ~Settling' /\ ~Pulling' /\ ~Planned' /\ ~Applying'
  BY <1>1 DEF Working, Settling, Pulling, Planned, Applying
<1>3. /\ row'.rev = row.rev
      /\ \/ row'.pending = row.pending /\ nextId' = nextId
         \/ row'.pending.id = nextId /\ nextId' = nextId + 1
  <2> DEFINE m == NewMutation(rec.hash, rec.base)
  <2>1. m.id = nextId
    BY DEF NewMutation
  <2>2. \/ row' = row /\ nextId' = nextId
        \/ row' = [row EXCEPT !.pending = m] /\ nextId' = nextId + 1
    BY DEF Crash
  <2> HIDE DEF m
  <2>3. CASE row' = [row EXCEPT !.pending = m] /\ nextId' = nextId + 1
    <3>1. row'.rev = row.rev /\ row'.pending = m
      BY <1>0, <2>3 DEF Row
    <3> QED
      BY <2>1, <2>3, <3>1
  <2> QED
    BY <2>2, <2>3
<1>4. Turns'
  BY <1>1 DEF Turns
<1>5. Ids'
  <2>1. /\ nextId > 0 /\ row.pending.id < nextId
        /\ \A i \in DOMAIN accepted : i \in Nat /\ 0 < i /\ i < nextId
    BY DEF EntryInv, Ids
  <2> QED
    BY <1>0, <1>1, <1>2, <1>3, <2>1 DEF Ids
<1>6. Books' /\ CursorCoversOnlyApplied'
  BY <1>1, <1>3 DEF EntryInv, Books, CursorCoversOnlyApplied
<1>7. News'
  <2> SUFFICES ASSUME NEW m \in Mutation, InPlay(m)', m.id \in DOMAIN accepted
               PROVE  accepted[m.id].rev > row.rev /\ m.hash \in published \cup {NoFile}
    BY <1>1, <1>3 DEF News
  <2>1. m = row'.pending
    BY <1>2 DEF InPlay
  <2>2. nextId \notin DOMAIN accepted
    BY <1>0 DEF EntryInv, Ids
  <2>3. InPlay(m)
    BY <1>3, <2>1, <2>2 DEF InPlay
  <2> QED
    BY <2>3 DEF EntryInv, News
<1>8. Pushed' /\ Pulled'
  BY <1>1, <1>2 DEF Pushed, Pulled
<1> QED
  BY <1>4, <1>5, <1>6, <1>7, <1>8 DEF EntryInv

\* Changes of the other devices take numbers nobody here has seen.
LEMMA RemoteKeeps ==
    ASSUME EntryInv, Shape',
           RemoteElsewhere \/ \E hash \in File : RemoteChange(hash)
    PROVE  EntryInv'
<1> USE DEF device, drain, remote
<1>0. /\ server \in ServerRecord /\ server.rev \in Nat /\ server.seq \in Nat
      /\ server.cursor \in Nat /\ cursor \in Nat /\ row.rev \in Nat
      /\ pull.target \in Nat /\ pull.rev \in Nat
      /\ \A i \in DOMAIN accepted : accepted[i].rev \in Nat /\ accepted[i].at \in Nat
  BY Numbers DEF EntryInv, Shape
<1>1. /\ UNCHANGED <<row, cursor, nextId, rec, push, pull, accepted, up>>
      /\ server'.cursor = server.cursor + 1
      /\ \/ /\ server'.rev = server.rev /\ server'.seq = server.seq
            /\ server'.hash = server.hash /\ server'.body = server.body
            /\ published' = published
         \/ /\ server'.rev = server.rev + 1 /\ server'.seq = server.cursor + 1
            /\ server'.hash = server'.body
            /\ server'.hash \in published' \cup {NoFile}
            /\ published \subseteq published'
  <2>1. CASE RemoteElsewhere
    BY <1>0, <2>1 DEF RemoteElsewhere, ServerRecord
  <2>2. ASSUME NEW hash \in File, RemoteChange(hash)
        PROVE  /\ UNCHANGED <<row, cursor, nextId, rec, push, pull, accepted, up>>
               /\ server'.cursor = server.cursor + 1
               /\ server'.rev = server.rev + 1 /\ server'.seq = server.cursor + 1
               /\ server'.hash = server'.body
               /\ server'.hash \in published' \cup {NoFile}
               /\ published \subseteq published'
    BY <2>2 DEF RemoteChange
  <2> QED
    BY <2>1, <2>2
<1>2. published \subseteq published'
  BY <1>1
<1>3. /\ Working' <=> Working
      /\ Settling' <=> Settling
      /\ Pulling' <=> Pulling
      /\ Planned' <=> Planned
      /\ Applying' <=> Applying
      /\ Turns' /\ Ids'
  BY <1>1 DEF Working, Settling, Pulling, Planned, Applying, EntryInv, Turns, Ids
<1>4. /\ server.seq <= server.cursor /\ cursor <= server.cursor /\ row.rev <= server.rev
      /\ \A i \in DOMAIN accepted :
           /\ accepted[i].rev <= server.rev /\ accepted[i].at <= server.seq
           /\ accepted[i].at = server.seq => accepted[i].rev = server.rev
  BY DEF EntryInv, Books
<1>5. Books'
  <2>1. /\ server'.seq <= server'.cursor /\ cursor <= server'.cursor
        /\ row.rev <= server'.rev
        /\ server'.body = server'.hash /\ server'.hash \in published' \cup {NoFile}
    BY <1>0, <1>1, <1>4 DEF EntryInv, Books
  <2>2. ASSUME NEW i \in DOMAIN accepted
        PROVE  /\ accepted[i].rev <= server'.rev /\ accepted[i].at <= server'.seq
               /\ accepted[i].at = server'.seq => accepted[i].rev = server'.rev
    <3>1. /\ accepted[i].rev \in Nat /\ accepted[i].at \in Nat
          /\ accepted[i].rev <= server.rev /\ accepted[i].at <= server.seq
          /\ accepted[i].at = server.seq => accepted[i].rev = server.rev
      BY <1>0, <1>4
    <3> QED
      BY <1>0, <1>1, <1>4, <3>1
  <2> QED
    BY <1>1, <2>1, <2>2 DEF Books
<1>6. CursorCoversOnlyApplied'
  BY <1>0, <1>1, <1>4 DEF EntryInv, CursorCoversOnlyApplied
<1>7. News'
  <2> SUFFICES ASSUME NEW m \in Mutation, InPlay(m)', m.id \in DOMAIN accepted
               PROVE  accepted[m.id].rev > row.rev /\ m.hash \in published' \cup {NoFile}
    BY <1>1 DEF News
  <2>1. InPlay(m)
    BY <1>1, <1>3 DEF InPlay
  <2> QED
    BY <1>2, <2>1 DEF EntryInv, News
<1>8. Pushed'
  <2>1. /\ push.acked \subseteq 0..server.cursor
        /\ server.seq \in push.acked => row.rev = server.rev
    BY DEF EntryInv, Pushed
  <2>2. /\ push.acked \subseteq 0..server'.cursor
        /\ server'.seq \in push.acked => row.rev = server'.rev
    BY <1>0, <1>1, <2>1
  <2> QED
    BY <1>1, <1>3, <2>2 DEF EntryInv, Pushed
<1>9. Pulled'
  <2>1. /\ pull.pc # "idle" => cursor <= pull.target /\ pull.target <= server.cursor
        /\ Pulling => /\ pull.rev <= server.rev
                      /\ server.seq <= pull.target => pull.rev = server.rev
                      /\ pull.hash \in published \cup {NoFile}
        /\ pull.pc = "checkpoint" => (server.seq <= pull.target => row.rev = server.rev)
    BY DEF EntryInv, Pulled
  <2>2. pull.pc # "idle" => cursor <= pull.target /\ pull.target <= server'.cursor
    BY <1>0, <1>1, <2>1
  <2>3. Pulling => /\ pull.rev <= server'.rev
                   /\ server'.seq <= pull.target => pull.rev = server'.rev
                   /\ pull.hash \in published' \cup {NoFile}
    <3>1. Pulling => pull.pc # "idle"
      BY DEF Pulling
    <3> QED
      BY <1>0, <1>1, <1>2, <2>1, <3>1
  <2>4. pull.pc = "checkpoint" => (server'.seq <= pull.target => row.rev = server'.rev)
    BY <1>0, <1>1, <2>1
  <2> QED
    BY <1>1, <1>3, <2>2, <2>3, <2>4 DEF EntryInv, Pulled
<1> QED
  BY <1>3, <1>5, <1>6, <1>7, <1>8, <1>9 DEF EntryInv

LEMMA EntryInvNext == EntryInv /\ [Next]_vars => EntryInv'
<1> SUFFICES ASSUME EntryInv, [Next]_vars PROVE EntryInv'
  OBVIOUS
<1>0. Shape
  BY DEF EntryInv
<1>1. CASE Recorder \/ PolicyUpdated \/ Notify \/ UserRemove
           \/ \E c \in Content : UserWrite(c)
  BY <1>0, <1>1, LocalShape, LocalStepKeeps
<1>2. CASE Push
  <2>1. CASE PushFinish
    BY <2>1, PushFinishKeeps
  <2>2. CASE ~PushFinish
    <3>1. Shape'
      BY <1>0, <1>2, <2>2, PushShape
    <3> QED
      BY <1>2, <2>2, <3>1, PushStartKeeps, PushStepKeeps, PushBreaksKeeps, PushWrites,
         PushCommitKeeps, PushApplyKeeps DEF Push
  <2> QED
    BY <2>1, <2>2
<1>3. CASE Pull \/ PullFails \/ PullVaultFails
  <2>1. Shape'
    BY <1>0, <1>3, PullShape
  <2> QED
    BY <1>3, <2>1, PullFetchKeeps, PullStepKeeps, PullStoreKeeps, PullOverKeeps DEF Pull
<1>4. CASE RemoteElsewhere \/ PushFails \/ Crash \/ Restart
           \/ \E hash \in File : RemoteChange(hash)
  <2>1. Shape'
    BY <1>0, <1>4, OutsideShape
  <2> QED
    BY <1>4, <2>1, RemoteKeeps, PushBreaksKeeps, CrashKeeps, LocalStepKeeps
<1>5. CASE UNCHANGED vars
  <2>1. UNCHANGED <<disk, copies, event, row, cursor, nextId, rec, push, pull, wantPush,
                    wantPull, server, accepted, published, limited, up>>
    BY <1>5 DEF vars, device, drain, remote
  <2>2. Shape'
    BY <1>0, <2>1 DEF Shape
  <2> QED
    BY <2>1, <2>2, LocalKeeps DEF EntryInv, Turns
<1> QED
  BY <1>1, <1>2, <1>3, <1>4, <1>5 DEF Next, Environment

-----------------------------------------------------------------------------
(* What holds of every run, whatever the overlap and wherever it crashes.   *)

THEOREM EntryInvariance == Spec => []EntryInv
  BY EntryInvInit, EntryInvNext, PTL DEF Spec

\* The state keeps its shape: revisions, bases and cursors stay numbers, the
\* row and the copies hold contents or nothing.
THEOREM EntryTypeCorrect == Spec => []TypeOK
<1>1. EntryInv => TypeOK
  BY ShapeIsType DEF EntryInv
<1> QED
  BY <1>1, EntryInvariance, PTL

\* The cursor never passes a change of the entry that the row has not taken:
\* neither the checkpoint of a push (getContiguousAcceptedCursor) nor the one
\* of a pull covers what was not applied, with any overlap of local work and
\* any crash, lost answer or vault failure.
THEOREM CursorIsHonest == Spec => []CursorCoversOnlyApplied
<1>1. EntryInv => CursorCoversOnlyApplied
  BY DEF EntryInv
<1> QED
  BY <1>1, EntryInvariance, PTL

\* What the server holds under a hash has that hash: the push compares the
\* bytes it read with the recorded hash before it uploads them, and no write
\* in between changes what it took.
THEOREM BytesAreTheHash == Spec => []PublishedBytesMatchHash
<1>1. EntryInv => PublishedBytesMatchHash
  BY DEF EntryInv, Books, PublishedBytesMatchHash
<1> QED
  BY <1>1, EntryInvariance, PTL

-----------------------------------------------------------------------------
(* What local work has run beside.  Every step brings the history up to     *)
(* date: it starts over when the entry comes to rest.                       *)

LEMMA StepMarks == Next => Mark
<1> SUFFICES ASSUME Next PROVE Mark
  OBVIOUS
<1>1. Recorder => Mark
  BY DEF Recorder, RecordDrop, RecordRead, RecordHashed, RecordUpsert, RecordDelete,
         RecordDeleteQueued
<1>2. Push => Mark
  BY DEF Push, PushStart, PushTake, PushRead, PushReadMissing, PushRequeue, PushUpload,
         PushBlock, PushCommit, PushRejected, PushAccepted, PushPlan, PushApply,
         PushApplyRetry, PushApplyGivesUp, PushFinish
<1>3. Pull => Mark
  BY DEF Pull, PullFetch, PullPlan, PullPrepare, PullInspect, PullBegin, PullCopy,
         PullVault, PullStore, PullCheckpoint
<1>4. Notify \/ Restart => Mark
  BY DEF Notify, Restart
<1>5. Environment => Mark
  BY DEF Environment, UserWrite, UserRemove, RemoteChange, RemoteElsewhere, PolicyUpdated,
         PushFails, PullFails, PullVaultFails, Crash
<1> QED
  BY <1>1, <1>2, <1>3, <1>4, <1>5 DEF Next

LEMMA History ==
    [Next]_vars => UNCHANGED vars \/ AtRest' \/ beside' = beside \cup Met
  BY StepMarks DEF Mark

\* A push or a pull that is not met starts with nothing for the recorder to do,
\* and local work that meets neither lets what they use alone.
LEMMA Unmet ==
    /\ "push" \notin Met /\ PushStart => LocalQuiet
    /\ "pull" \notin Met /\ PullFetch => LocalQuiet
    /\ "pull" \notin Met /\ UNCHANGED <<push, pull>> /\ pull.pc # "idle"
         => UNCHANGED <<disk, rec, row, limited>>
    /\ Met = {} /\ UNCHANGED <<push, pull>> /\ ~DrainIdle
         => UNCHANGED <<disk, rec, row, limited>>
<1>1. PushStart => push'.pc = "list" /\ push.pc = "idle"
  BY DEF PushStart, PushIdle, DrainIdle
<1>2. PullFetch => pull'.pc \in {"planned", "checkpoint"} /\ pull.pc = "idle"
  BY DEF PullFetch, PullIdle, DrainIdle
<1>3. "push" \notin Met /\ PushStart => LocalQuiet
  BY <1>1 DEF Met, Running
<1>4. "pull" \notin Met /\ PullFetch => LocalQuiet
  BY <1>2 DEF Met, Running
<1> QED
  BY <1>3, <1>4 DEF Met, Running, DrainIdle

\* What the user and the recorder do to a push, a pull and the server.
LEMMA LocalSteps ==
    ASSUME \/ Recorder \/ PolicyUpdated \/ UserRemove \/ Restart
           \/ \E c \in Content : UserWrite(c)
    PROVE  UNCHANGED <<push, pull, server, cursor, published, copies>>
  BY DEF Recorder, RecordDrop, RecordRead, RecordHashed, RecordUpsert, RecordDelete,
         RecordDeleteQueued, PolicyUpdated, UserRemove, Restart, UserWrite, drain, remote,
         device

-----------------------------------------------------------------------------
(* Bases.  No mutation is ahead of the server; while local work runs beside *)
(* neither a push nor a pull, each is based on the revision the row holds.  *)

\* What made an answer stale lies beyond the cursor.
StaleLiesAhead == push.pc = "answered" /\ push.result = "stale" => server.seq > cursor

BaseInv ==
    /\ rec.pc # "idle" => DrainIdle
    /\ rec.pc \in {"encrypt", "encryptDelete"} => rec.base = row.rev
    /\ IsDirty(row) => row.pending.base = row.rev
    /\ Working => push.mut.base = row.rev
    /\ push.pc = "requeue" => push.base = row.rev
    /\ Applying /\ IsDirty(pull.snap) => pull.snap.pending.base = row.rev
    /\ StaleLiesAhead

LEMMA BaseInvInit == Init => BaseInv
  BY DEF Init, BaseInv, RecIdle, PushIdle, PullIdle, IsDirty, Working, Applying,
         StaleLiesAhead, EmptyRow, UpsertedRow, NoMutation

\* The recorder and the user, while the drain rests.
LEMMA LocalBase ==
    ASSUME EntryInv, BaseInv,
           \/ Crash \/ Notify
           \/ /\ DrainIdle
              /\ \/ Recorder \/ PolicyUpdated \/ UserRemove \/ Restart
                 \/ \E c \in Content : UserWrite(c)
    PROVE  BaseInv'
<1> USE DEF device, drain, remote
<1>0. /\ row \in Row /\ row.rev \in Nat /\ row.pending \in Mutation
      /\ rec \in RecRecord /\ nextId \in Nat /\ disk \in File
      /\ NoFile \in File /\ NoMutation \in Mutation /\ NoMutation.id = 0
      /\ NoFile \in File \cup {Unknown} /\ rec.hash \in File \cup {Unknown}
      /\ rec.hash \in File /\ rec.base \in Nat /\ disk \in File \cup {Unknown}
      /\ ~up => DrainIdle
  BY Numbers, IdleTypes DEF EntryInv, Shape, RecRecord, Turns, DrainIdle
<1>1. ASSUME NEW m \in Mutation
      PROVE  /\ [row EXCEPT !.pending = m].rev = row.rev
             /\ [row EXCEPT !.pending = m].pending = m
  BY <1>0 DEF Row
<1>2. ASSUME NEW m \in Mutation, NEW l \in File \cup {Unknown},
             row' = [row EXCEPT !.pending = m, !.local = l]
      PROVE  row'.rev = row.rev /\ row'.pending = m
  BY <1>0, <1>2 DEF Row
<1>3. EmptyRow.rev = 0 /\ EmptyRow.pending.id = 0
  BY DEF EmptyRow, NoMutation
<1>4. /\ Unblocked(row).rev = row.rev
      /\ Unblocked(row).pending.id = row.pending.id
      /\ Unblocked(row).pending.base = row.pending.base
  BY <1>0 DEF Unblocked, Row, Mutation
\* A step of a resting drain that bases what it queues on the row.
<1>5. ASSUME DrainIdle, push'.pc = "idle", pull'.pc = "idle",
             rec'.pc \in {"encrypt", "encryptDelete"} => rec'.base = row.rev,
             row'.rev = row.rev,
             row'.pending.id = 0 \/ row'.pending.base = row.rev
      PROVE  BaseInv'
  BY <1>5 DEF BaseInv, DrainIdle, Working, Applying, IsDirty, StaleLiesAhead
<1>6. ASSUME UNCHANGED <<row, rec, push, pull, server, cursor>> PROVE BaseInv'
  BY <1>6 DEF BaseInv, DrainIdle, Working, Applying, IsDirty, StaleLiesAhead
<1>7. row.pending.id = 0 \/ row.pending.base = row.rev
  BY DEF BaseInv, IsDirty
<1>8. CASE RecordDrop \/ Notify \/ UserRemove
  BY <1>6, <1>8 DEF RecordDrop, Notify, UserRemove
<1>9. CASE DrainIdle /\ RecordRead
  BY <1>0, <1>5, <1>7, <1>9 DEF RecordRead, RecIdle, DrainIdle
<1>10. CASE DrainIdle /\ RecordHashed
  <2>1. rec'.pc \in {"encrypt", "encryptDelete"} => rec'.base = row.rev
    BY <1>0, <1>10 DEF RecordHashed, RecIdle, RecRecord
  <2> QED
    BY <1>0, <1>5, <1>7, <1>10, <2>1 DEF RecordHashed, DrainIdle
<1>11. CASE DrainIdle /\ RecordUpsert
  <2> DEFINE m == NewMutation(rec.hash, rec.base)
  <2>1. m \in Mutation /\ m.base = row.rev
    BY <1>0, <1>11, MutationType DEF NewMutation, RecordUpsert, BaseInv
  <2>2. row' = [row EXCEPT !.pending = m, !.local = rec.hash]
        /\ rec'.pc = "idle" /\ DrainIdle /\ UNCHANGED <<push, pull>>
    BY <1>0, <1>11 DEF RecordUpsert, RecIdle
  <2> HIDE DEF m
  <2>3. row'.rev = row.rev /\ row'.pending = m
    BY <1>0, <1>2, <2>1, <2>2
  <2> QED
    BY <1>5, <2>1, <2>2, <2>3 DEF DrainIdle
<1>12. CASE DrainIdle /\ RecordDelete
  <2>1. /\ DrainIdle /\ UNCHANGED <<push, pull>>
        /\ rec'.pc \in {"idle", "encryptDelete"}
        /\ rec'.pc = "encryptDelete" => rec'.base = row.rev
        /\ \/ row' = row
           \/ row' = EmptyRow /\ row.rev = 0
           \/ row' = [row EXCEPT !.pending = NoMutation, !.local = NoFile]
    BY <1>0, <1>12 DEF RecordDelete, RecIdle
  <2>2. /\ row'.rev = row.rev
        /\ row'.pending = row.pending \/ row'.pending.id = 0
    BY <1>0, <1>2, <1>3, <2>1
  <2> QED
    BY <1>5, <1>7, <2>1, <2>2 DEF DrainIdle
<1>13. CASE DrainIdle /\ RecordDeleteQueued
  <2> DEFINE m == NewMutation(NoFile, rec.base)
  <2>1. m \in Mutation /\ m.base = row.rev
    BY <1>0, <1>13, MutationType DEF NewMutation, RecordDeleteQueued, BaseInv
  <2>2. row' = [row EXCEPT !.pending = m]
        /\ rec'.pc = "idle" /\ DrainIdle /\ UNCHANGED <<push, pull>>
    BY <1>0, <1>13 DEF RecordDeleteQueued, RecIdle
  <2> HIDE DEF m
  <2>3. row'.rev = row.rev /\ row'.pending = m
    BY <1>0, <1>1, <2>1, <2>2
  <2> QED
    BY <1>5, <2>1, <2>2, <2>3 DEF DrainIdle
<1>14. CASE DrainIdle /\ PolicyUpdated
  <2>1. DrainIdle /\ UNCHANGED <<push, pull, rec>> /\ row' = Unblocked(row)
    BY <1>0, <1>14 DEF PolicyUpdated
  <2> HIDE DEF Unblocked
  <2> QED
    BY <1>4, <1>5, <1>7, <2>1 DEF DrainIdle, BaseInv
<1>15. ASSUME NEW c \in Content, UserWrite(c) PROVE BaseInv'
  BY <1>6, <1>15 DEF UserWrite
<1>16. CASE DrainIdle /\ Restart
  <2> DEFINE m == NewMutation(disk, row.rev)
  <2>1. m \in Mutation /\ m.base = row.rev
    BY <1>0, MutationType DEF NewMutation
  <2>2. /\ DrainIdle /\ UNCHANGED <<push, pull, rec>>
        /\ \/ row' = [row EXCEPT !.pending = m, !.local = disk]
           \/ row' = EmptyRow /\ row.rev = 0
           \/ row' = Unblocked(row)
    BY <1>0, <1>16 DEF Restart
  <2> HIDE DEF m, Unblocked
  <2>3. /\ row'.rev = row.rev
        /\ row'.pending.id = 0 \/ row'.pending.base = row.rev
    BY <1>0, <1>2, <1>3, <1>4, <1>7, <2>1, <2>2
  <2> QED
    BY <1>5, <2>2, <2>3 DEF DrainIdle, BaseInv
<1>17. CASE Crash
  <2> DEFINE m == NewMutation(rec.hash, rec.base)
  <2>1. m \in Mutation /\ m.base = rec.base
    BY <1>0, MutationType DEF NewMutation
  <2>2. /\ push'.pc = "idle" /\ pull'.pc = "idle" /\ rec'.pc = "idle"
        /\ \/ row' = row
           \/ rec.pc = "encrypt" /\ row' = [row EXCEPT !.pending = m]
    BY <1>17 DEF Crash, PushIdle, PullIdle, RecIdle
  <2> HIDE DEF m
  <2>3. /\ row'.rev = row.rev
        /\ row'.pending.id = 0 \/ row'.pending.base = row.rev
    BY <1>1, <1>7, <2>1, <2>2 DEF BaseInv
  <2> QED
    BY <2>2, <2>3 DEF BaseInv, DrainIdle, Working, Applying, IsDirty, StaleLiesAhead
<1> QED
  BY <1>8, <1>9, <1>10, <1>11, <1>12, <1>13, <1>14, <1>15, <1>16, <1>17
  DEF Recorder

LEMMA PushBase ==
    ASSUME Met = {}, EntryInv, BaseInv, Push \/ PushFails
    PROVE  BaseInv'
<1> USE DEF device, remote
<1>0. /\ push \in PushRecord /\ row \in Row /\ row.rev \in Nat /\ row.pending \in Mutation
      /\ push.mut \in Mutation /\ push.bytes \in File /\ push.base \in Nat /\ nextId \in Nat
      /\ push.mut.base \in Nat /\ push.rev \in Nat
      /\ push.bytes \in File \cup {Unknown}
  BY Numbers DEF EntryInv, Shape, PushRecord, Mutation
<1>1. rec.pc = "idle" /\ pull.pc = "idle" /\ UNCHANGED <<rec, pull>>
  BY Unmet DEF EntryInv, Turns, BaseInv, DrainIdle, Push, PushFails, PushStart, PushTake,
         PushRead, PushReadMissing, PushRequeue, PushUpload, PushBlock, PushCommit,
         PushRejected, PushAccepted, PushPlan, PushApply, PushApplyRetry,
         PushApplyGivesUp, PushFinish, PushAborts, LocalQuiet
<1>2. ~Applying /\ ~Applying'
  BY <1>1 DEF Applying
<1>3. row.pending.id # 0 => row.pending.base = row.rev
  BY DEF BaseInv, IsDirty
\* A step that leaves the row alone.
<1>4. ASSUME UNCHANGED row,
             Working' => \/ Working /\ push'.mut = push.mut
                         \/ row.pending.id # 0 /\ push'.mut = row.pending,
             push'.pc = "requeue" => push'.base = row.rev,
             push'.pc # "answered" \/ push'.result # "stale"
      PROVE  BaseInv'
  BY <1>1, <1>2, <1>3, <1>4 DEF BaseInv, IsDirty, StaleLiesAhead
\* A step that writes the row and goes on with the list.
<1>5. ASSUME push'.pc = "list", row'.pending.id = 0 \/ row'.pending.base = row'.rev
      PROVE  BaseInv'
  BY <1>1, <1>2, <1>5 DEF BaseInv, IsDirty, Working, StaleLiesAhead
<1>6. CASE PushStart
  <2>1. UNCHANGED row /\ push'.pc = "list"
    BY <1>6 DEF PushStart, PushIdle
  <2> QED
    BY <1>4, <2>1 DEF Working
<1>7. CASE PushTake
  <2>1. /\ UNCHANGED row /\ row.pending.id # 0 /\ push'.mut = row.pending
        /\ push'.pc \in {"ready", "read"}
    BY <1>0, <1>7 DEF PushTake, IsPushable, IsDirty, PushRecord
  <2> QED
    BY <1>4, <2>1
<1>8. CASE PushRead
  <2>1. /\ UNCHANGED row /\ push.pc = "read" /\ push'.mut = push.mut
        /\ \/ push'.pc = "upload"
           \/ /\ push'.pc = "requeue"
              /\ push'.base = IF row.rev > 0 THEN row.rev ELSE push.mut.base
    BY <1>0, <1>8 DEF PushRead, PushRecord
  <2>2. Working /\ push.mut.base = row.rev
    BY <2>1 DEF Working, BaseInv
  <2>3. push'.pc = "requeue" => push'.base = row.rev
    BY <2>1, <2>2
  <2>4. push'.pc # "answered"
    BY <2>1
  <2> QED
    BY <1>4, <2>1, <2>2, <2>3, <2>4
<1>9. CASE PushRequeue
  <2> DEFINE m == NewMutation(push.bytes, push.base)
  <2>1. /\ m \in Mutation /\ m.base = push.base /\ push.base = row.rev
    BY <1>0, <1>9, MutationType DEF NewMutation, PushRequeue, BaseInv
  <2>2. /\ row' = [row EXCEPT !.pending = m, !.local = push.bytes]
        /\ push'.pc = "list"
    BY <1>0, <1>9 DEF PushRequeue, PushRecord
  <2> HIDE DEF m
  <2>3. row'.rev = row.rev /\ row'.pending = m
    BY <1>0, <2>1, <2>2 DEF Row
  <2> QED
    BY <1>5, <2>1, <2>2, <2>3
<1>10. CASE PushUpload
  <2>1. /\ UNCHANGED row /\ push.pc = "upload" /\ push'.mut = push.mut
        /\ push'.pc \in {"refused", "ready"}
    BY <1>0, <1>10 DEF PushUpload, PushRecord
  <2> QED
    BY <1>4, <2>1 DEF Working
<1>11. CASE PushBlock
  <2> DEFINE m == [push.mut EXCEPT !.blocked = TRUE]
  <2>1. push.mut.base = row.rev
    BY <1>11 DEF PushBlock, BaseInv, Working
  <2>2. m \in Mutation /\ m.base = row.rev
    BY <1>0, <2>1 DEF Mutation
  <2>3. row' = [row EXCEPT !.pending = m] /\ push'.pc = "list"
    BY <1>0, <1>11 DEF PushBlock, PushRecord
  <2> HIDE DEF m
  <2>4. row'.rev = row.rev /\ row'.pending = m
    BY <1>0, <2>2, <2>3 DEF Row
  <2> QED
    BY <1>5, <2>2, <2>3, <2>4
<1>12. CASE PushCommit
  <2>0. push.pc = "ready" /\ push.mut.base = row.rev /\ UNCHANGED <<row, cursor>>
    BY <1>12 DEF PushCommit, BaseInv, Working
  <2>1. CASE push'.result = "stale"
    <3>1. push.mut.base # server.rev /\ UNCHANGED server /\ push'.mut = push.mut
          /\ push'.pc = "answered"
      BY <1>0, <1>12, <2>1 DEF PushCommit, PushRecord
    <3>2. server.seq > cursor
      BY <2>0, <3>1, Numbers DEF EntryInv, CursorCoversOnlyApplied
    <3> QED
      BY <1>1, <1>2, <1>3, <2>0, <3>1, <3>2 DEF BaseInv, IsDirty, StaleLiesAhead
  <2>2. CASE push'.result # "stale"
    <3>1. push'.mut = push.mut /\ push'.pc = "answered"
      BY <1>0, <1>12 DEF PushCommit, PushRecord
    <3> QED
      BY <1>4, <2>0, <2>2, <3>1 DEF Working
  <2> QED
    BY <2>1, <2>2
<1>13. CASE PushRejected
  <2>1. UNCHANGED row /\ push'.pc = "list"
    BY <1>0, <1>13 DEF PushRejected, PushRecord
  <2> QED
    BY <1>4, <2>1 DEF Working
<1>14. CASE PushAccepted
  <2>1. UNCHANGED row /\ push.pc = "answered" /\ push'.mut = push.mut /\ push'.pc = "plan"
    BY <1>0, <1>14 DEF PushAccepted, PushRecord
  <2> QED
    BY <1>4, <2>1 DEF Working
<1>15. CASE PushPlan
  <2>1. UNCHANGED row /\ push.pc = "plan" /\ push'.mut = push.mut /\ push'.pc = "apply"
    BY <1>0, <1>15 DEF PushPlan, PushRecord
  <2> QED
    BY <1>4, <2>1 DEF Working
<1>16. CASE PushApply
  <2>1. row' = AcceptedRow /\ push'.pc = "list"
    BY <1>0, <1>16 DEF PushApply, PushRecord
  <2>2. [row.pending EXCEPT !.base = push.rev].base = push.rev
    BY <1>0 DEF Mutation
  <2>3. row'.pending.id = 0 \/ row'.pending.base = row'.rev
    BY <2>1, <2>2 DEF AcceptedRow, NoMutation
  <2> QED
    BY <1>5, <2>1, <2>3
<1>17. CASE PushApplyRetry
  <2>1. UNCHANGED row /\ push.pc = "apply" /\ push'.mut = push.mut /\ push'.pc = "plan"
    BY <1>0, <1>17 DEF PushApplyRetry, PushRecord
  <2> QED
    BY <1>4, <2>1 DEF Working
<1>18. CASE PushReadMissing \/ PushApplyGivesUp \/ PushFails \/ PushFinish
  <2>1. UNCHANGED row /\ push'.pc = "idle"
    BY <1>18 DEF PushReadMissing, PushApplyGivesUp, PushFails, PushFinish, PushAborts,
                 PushIdle
  <2> QED
    BY <1>4, <2>1 DEF Working
<1> QED
  BY <1>6, <1>7, <1>8, <1>9, <1>10, <1>11, <1>12, <1>13, <1>14, <1>15, <1>16, <1>17,
     <1>18 DEF Push

LEMMA PullBase ==
    ASSUME Met = {}, EntryInv, BaseInv, Pull \/ PullFails \/ PullVaultFails
    PROVE  BaseInv'
<1> USE DEF device, remote
<1>0. pull \in PullRecord /\ row \in Row
  BY DEF EntryInv, Shape
<1>1. rec.pc = "idle" /\ push.pc = "idle" /\ UNCHANGED <<rec, push>>
  BY Unmet DEF EntryInv, Turns, BaseInv, DrainIdle, Pull, PullFails, PullVaultFails, PullFetch,
         PullPlan, PullPrepare, PullInspect, PullBegin, PullCopy, PullVault, PullStore,
         PullCheckpoint, LocalQuiet
<1>2. ~Working /\ ~Working'
  BY <1>1 DEF Working
<1>3. row.pending.id = 0 \/ row.pending.base = row.rev
  BY DEF BaseInv, IsDirty
\* A step after which the row and the snapshot are based on the row's revision.
<1>4. ASSUME row'.pending.id = 0 \/ row'.pending.base = row'.rev,
             Applying' => \/ pull'.snap.pending.id = 0
                          \/ pull'.snap.pending.base = row'.rev
      PROVE  BaseInv'
  BY <1>1, <1>2, <1>4 DEF BaseInv, IsDirty, StaleLiesAhead
<1>5. Applying => \/ pull.snap.pending.id = 0
                  \/ pull.snap.pending.base = row.rev
  BY DEF BaseInv, IsDirty
<1>6. Planned => /\ PathReleased(ConflictCleared).rev = row.rev
                 /\ \/ PathReleased(ConflictCleared).pending = row.pending
                    \/ PathReleased(ConflictCleared).pending.id = 0
  BY ReleaseKeeps
<1>7. CASE PullFetch \/ PullPlan \/ PullPrepare \/ PullInspect \/ PullCheckpoint \/ PullFails
  <2>1. UNCHANGED row
    BY <1>7 DEF PullFetch, PullPlan, PullPrepare, PullInspect, PullCheckpoint, PullFails
  <2>2. pull'.pc \in {"idle", "planned", "prepare", "inspect", "begin", "checkpoint"}
    <3>1. CASE PullFetch
      BY <3>1 DEF PullFetch, PullIdle
    <3>5. CASE PullCheckpoint \/ PullFails
      BY <3>5 DEF PullCheckpoint, PullFails, PullIdle
    <3>2. CASE PullPlan
      BY <1>0, <3>2 DEF PullPlan, PullRecord
    <3>3. CASE PullPrepare
      BY <1>0, <3>3 DEF PullPrepare, PullRecord
    <3>4. CASE PullInspect
      <4> DEFINE b == ~AlreadyRemote
                 c == IF ~AlreadyRemote /\ pull.pend.hash # NoFile THEN disk ELSE NoFile
      <4>1. pull' = [pull EXCEPT !.pc = "begin", !.keep = b, !.copy = c]
        BY <3>4 DEF PullInspect
      <4> HIDE DEF b, c
      <4> QED
        BY <1>0, <4>1 DEF PullRecord
    <3> QED
      BY <1>7, <3>1, <3>2, <3>3, <3>4, <3>5
  <2>3. ~Applying'
    BY <2>2 DEF Applying
  <2> QED
    BY <1>3, <1>4, <2>1, <2>3
<1>8. CASE PullBegin
  <2>1. pull'.snap = row /\ Planned
    BY <1>0, <1>8 DEF PullBegin, PullRecord, Planned, Pulling
  <2>2. row' = row \/ row' = PathReleased(ConflictCleared)
    BY <1>8 DEF PullBegin
  <2>3. /\ row'.rev = row.rev
        /\ row'.pending = row.pending \/ row'.pending.id = 0
    BY <1>6, <2>1, <2>2
  <2> QED
    BY <1>3, <1>4, <2>1, <2>3
<1>9. CASE PullCopy
  <2>1. pull'.snap = pull.snap /\ Planned /\ Applying
    BY <1>0, <1>9 DEF PullCopy, PullRecord, Planned, Pulling, Applying
  <2>2. row' = PathReleased(ConflictCleared)
    BY <1>9 DEF PullCopy
  <2>3. /\ row'.rev = row.rev
        /\ row'.pending = row.pending \/ row'.pending.id = 0
    BY <1>6, <2>1, <2>2
  <2> QED
    BY <1>3, <1>4, <1>5, <2>1, <2>3
<1>10. CASE PullVault
  <2>1. pull'.snap = pull.snap /\ UNCHANGED row /\ Applying
    BY <1>0, <1>10 DEF PullVault, PullRecord, Applying
  <2> QED
    BY <1>3, <1>4, <1>5, <2>1
<1>11. CASE PullStore
  <2>1. row'.pending.id = 0 /\ pull'.pc = "checkpoint"
    BY <1>0, <1>11 DEF PullStore, PullRecord, UpsertedRow, NoMutation
  <2> QED
    BY <1>4, <2>1 DEF Applying
<1>12. CASE PullVaultFails
  <2>1. row' = pull.snap /\ pull'.pc = "idle" /\ Applying
    BY <1>12 DEF PullVaultFails, PullIdle, Applying
  <2>2. pull.snap.rev = row.rev
    BY <2>1 DEF EntryInv, Pulled
  <2> QED
    BY <1>4, <1>5, <2>1, <2>2 DEF Applying
<1> QED
  BY <1>7, <1>8, <1>9, <1>10, <1>11, <1>12 DEF Pull

LEMMA RemoteBase ==
    ASSUME EntryInv, BaseInv,
           RemoteElsewhere \/ \E hash \in File : RemoteChange(hash)
    PROVE  BaseInv'
<1>1. /\ UNCHANGED <<row, rec, push, pull, cursor>>
      /\ \/ server'.seq = server.seq
         \/ server'.seq = server.cursor + 1
  <2>1. CASE RemoteElsewhere
    BY <2>1 DEF RemoteElsewhere, device, drain, EntryInv, Shape, ServerRecord
  <2>2. CASE \E hash \in File : RemoteChange(hash)
    BY <2>2 DEF RemoteChange, device, drain
  <2> QED
    BY <2>1, <2>2
<1>2. server.seq > cursor => server'.seq > cursor
  BY <1>1, Numbers DEF EntryInv, Books
<1> QED
  BY <1>1, <1>2 DEF BaseInv, DrainIdle, Working, Applying, IsDirty, StaleLiesAhead

LEMMA BaseInvNext ==
    ASSUME EntryInv, beside = {} => BaseInv, [Next]_vars
    PROVE  beside' = {} => BaseInv'
<1>1. CASE UNCHANGED vars
  BY <1>1 DEF vars, device, drain, remote, BaseInv, DrainIdle, Working, Applying, IsDirty,
              StaleLiesAhead
<1>2. CASE AtRest'
  BY <1>2 DEF AtRest, DrainIdle, LocalQuiet, BaseInv, Working, Applying, StaleLiesAhead
<1>3. CASE Next /\ beside' = beside \cup Met
  <2> SUFFICES ASSUME beside' = {} PROVE BaseInv'
    OBVIOUS
  <2>1. Met = {} /\ BaseInv
    BY <1>3
  <2>2. CASE Push \/ PushFails
    BY <2>1, <2>2, PushBase
  <2>3. CASE Pull \/ PullFails \/ PullVaultFails
    BY <2>1, <2>3, PullBase
  <2>4. CASE RemoteElsewhere \/ \E hash \in File : RemoteChange(hash)
    BY <2>1, <2>4, RemoteBase
  <2>5. CASE Notify \/ Crash
    BY <2>1, <2>5, LocalBase
  <2>6. CASE \/ Recorder \/ PolicyUpdated \/ UserRemove \/ Restart
             \/ \E c \in Content : UserWrite(c)
    <3>1. CASE DrainIdle
      BY <2>1, <2>6, <3>1, LocalBase
    <3>2. CASE ~DrainIdle
      <4>1. UNCHANGED <<push, pull, server, cursor>>
        BY <2>6, LocalSteps
      <4>2. UNCHANGED <<rec, row>>
        BY <2>1, <3>2, <4>1, Unmet
      <4> QED
        BY <2>1, <4>1, <4>2
        DEF BaseInv, DrainIdle, Working, Applying, IsDirty, StaleLiesAhead
    <3> QED
      BY <3>1, <3>2
  <2> QED
    BY <1>3, <2>2, <2>3, <2>4, <2>5, <2>6 DEF Next, Environment
<1> QED
  BY <1>1, <1>2, <1>3, History

\* With any overlap no mutation is based on a revision the server has not given.
Below(b) == b <= server.rev

BoundInv ==
    /\ Below(rec.base) /\ Below(row.pending.base)
    /\ Below(push.mut.base) /\ Below(push.base)
    /\ Applying => Below(pull.snap.pending.base)
    /\ push.pc = "answered" /\ push.result = "stale" => push.mut.base < server.rev

LEMMA BoundInvInit == Init => BoundInv
<1> SUFFICES ASSUME Init PROVE BoundInv
  OBVIOUS
<1>1. /\ rec.base = 0 /\ push.mut.base = 0 /\ push.base = 0 /\ push.pc = "idle"
      /\ row.pending.base = 0 /\ pull.pc = "idle" /\ server.rev \in {0, 1}
  BY DEF Init, RecIdle, PushIdle, PullIdle, EmptyRow, UpsertedRow, NoMutation
<1> QED
  BY <1>1 DEF BoundInv, Below, Applying

\* The recorder, the reconcile and a crash between the two writes of an upsert.
LEMMA LocalBound ==
    ASSUME EntryInv, BoundInv,
           \/ Recorder \/ PolicyUpdated \/ UserRemove \/ Restart \/ Crash
           \/ \E c \in Content : UserWrite(c)
    PROVE  BoundInv'
<1> USE DEF device, drain, remote
<1>0. /\ row \in Row /\ row.rev \in Nat /\ row.pending \in Mutation
      /\ rec \in RecRecord /\ nextId \in Nat /\ server.rev \in Nat
      /\ NoFile \in File /\ NoMutation \in Mutation /\ NoMutation.base = 0
      /\ NoFile \in File \cup {Unknown} /\ rec.hash \in File \cup {Unknown}
      /\ rec.hash \in File /\ rec.base \in Nat
      /\ disk \in File /\ disk \in File \cup {Unknown}
      /\ row.rev <= server.rev /\ row.pending.base <= server.rev /\ rec.base <= server.rev
  BY Numbers, IdleTypes DEF EntryInv, Shape, RecRecord, Books, BoundInv, Below, NoMutation
<1>1. ASSUME NEW hash \in File, NEW base \in Nat, base <= server.rev
      PROVE  /\ NewMutation(hash, base) \in Mutation
             /\ NewMutation(hash, base).base <= server.rev
  BY <1>0, <1>1, MutationType DEF NewMutation
<1>2. ASSUME NEW m \in Mutation, m.base <= server.rev, NEW l \in File \cup {Unknown},
             \/ row' = [row EXCEPT !.pending = m, !.local = l]
             \/ row' = [row EXCEPT !.pending = m]
      PROVE  row'.pending.base <= server.rev
  <2>1. row'.pending = m
    BY <1>0, <1>2 DEF Row
  <2> QED
    BY <1>2, <2>1
<1>3. EmptyRow.pending.base <= server.rev
  BY <1>0 DEF EmptyRow
<1>4. Unblocked(row).pending.base = row.pending.base
  BY <1>0 DEF Unblocked, Row, Mutation
<1>5. ASSUME UNCHANGED server, UNCHANGED <<push, pull>>,
             row'.pending.base <= server.rev, rec'.base <= server.rev
      PROVE  BoundInv'
  BY <1>5 DEF BoundInv, Below, Applying
<1>6. CASE RecordDrop \/ UserRemove \/ \E c \in Content : UserWrite(c)
  <2>1. UNCHANGED <<server, push, pull, row, rec>>
    BY <1>6 DEF RecordDrop, UserRemove, UserWrite
  <2> QED
    BY <1>0, <1>5, <2>1
<1>7. CASE RecordRead \/ RecordHashed
  <2>1. UNCHANGED <<server, push, pull, row>>
    BY <1>7 DEF RecordRead, RecordHashed
  <2>2. rec'.base \in {0, rec.base, row.rev}
    <3>1. CASE RecordRead
      BY <3>1 DEF RecordRead, RecIdle
    <3>2. CASE RecordHashed
      BY <1>0, <3>2 DEF RecordHashed, RecIdle, RecRecord
    <3> QED
      BY <1>7, <3>1, <3>2
  <2> QED
    BY <1>0, <1>5, <2>1, <2>2
<1>8. CASE RecordUpsert \/ RecordDeleteQueued
  <2>1. /\ UNCHANGED <<server, push, pull>> /\ rec'.base = 0
        /\ \/ row' = [row EXCEPT !.pending = NewMutation(rec.hash, rec.base), !.local = rec.hash]
           \/ row' = [row EXCEPT !.pending = NewMutation(NoFile, rec.base)]
    BY <1>8 DEF RecordUpsert, RecordDeleteQueued, RecIdle
  <2>2. row'.pending.base <= server.rev
    BY <1>0, <1>1, <1>2, <2>1
  <2> QED
    BY <1>0, <1>5, <2>1, <2>2
<1>9. CASE RecordDelete
  <2>1. /\ UNCHANGED <<server, push, pull>> /\ rec'.base \in {rec.base, row.rev}
        /\ \/ row' = row \/ row' = EmptyRow
           \/ row' = [row EXCEPT !.pending = NoMutation, !.local = NoFile]
    BY <1>9 DEF RecordDelete, RecIdle
  <2>2. CASE row' = [row EXCEPT !.pending = NoMutation, !.local = NoFile]
    <3>1. row'.pending = NoMutation
      BY <1>0, <2>2 DEF Row
    <3> QED
      BY <1>0, <1>5, <2>1, <3>1
  <2>3. CASE row' = row \/ row' = EmptyRow
    BY <1>0, <1>3, <1>5, <2>1, <2>3
  <2> QED
    BY <2>1, <2>2, <2>3
<1>10. CASE PolicyUpdated
  <2>1. UNCHANGED <<server, push, pull, rec>> /\ row' = Unblocked(row)
    BY <1>10 DEF PolicyUpdated
  <2> HIDE DEF Unblocked
  <2> QED
    BY <1>0, <1>4, <1>5, <2>1
<1>11. CASE Restart
  <2>1. /\ UNCHANGED <<server, push, pull, rec>>
        /\ \/ row' = [row EXCEPT !.pending = NewMutation(disk, row.rev), !.local = disk]
           \/ row' = EmptyRow
           \/ row' = Unblocked(row)
    BY <1>11 DEF Restart
  <2> HIDE DEF Unblocked
  <2>2. row'.pending.base <= server.rev
    BY <1>0, <1>1, <1>2, <1>3, <1>4, <2>1
  <2> QED
    BY <1>0, <1>5, <2>1, <2>2
<1>12. CASE Crash
  <2>1. /\ UNCHANGED server /\ rec'.base = 0 /\ push'.mut.base = 0 /\ push'.base = 0
        /\ push'.pc = "idle" /\ pull'.pc = "idle"
        /\ \/ row' = row
           \/ row' = [row EXCEPT !.pending = NewMutation(rec.hash, rec.base)]
    BY <1>12 DEF Crash, RecIdle, PushIdle, PullIdle, NoMutation
  <2>2. row'.pending.base <= server.rev
    BY <1>0, <1>1, <1>2, <2>1
  <2> QED
    BY <1>0, <2>1, <2>2 DEF BoundInv, Below, Applying
<1> QED
  BY <1>6, <1>7, <1>8, <1>9, <1>10, <1>11, <1>12 DEF Recorder

LEMMA PushBound ==
    ASSUME EntryInv, BoundInv, Push \/ PushFails
    PROVE  BoundInv'
<1> USE DEF device, remote
<1>0. /\ push \in PushRecord /\ row \in Row /\ row.rev \in Nat /\ row.pending \in Mutation
      /\ push.mut \in Mutation /\ push.bytes \in File /\ push.base \in Nat /\ nextId \in Nat
      /\ push.mut.base \in Nat /\ push.rev \in Nat /\ server.rev \in Nat
      /\ push.bytes \in File \cup {Unknown} /\ row.rev <= server.rev
      /\ row.pending.base <= server.rev /\ rec.base <= server.rev
      /\ push.mut.base <= server.rev /\ push.base <= server.rev
      /\ row.pending.base \in Nat
  BY Numbers DEF EntryInv, Shape, PushRecord, Mutation, Books, BoundInv, Below
<1>1. pull.pc = "idle" /\ UNCHANGED <<rec, pull>> /\ rec.base \in Nat
  BY DEF EntryInv, Shape, RecRecord, Turns, DrainIdle, Push, PushFails, PushStart, PushTake,
         PushRead, PushReadMissing, PushRequeue, PushUpload, PushBlock, PushCommit,
         PushRejected, PushAccepted, PushPlan, PushApply, PushApplyRetry,
         PushApplyGivesUp, PushFinish, PushAborts
\* A step that leaves the server alone and answers nothing.
<1>2. ASSUME UNCHANGED server, push'.pc # "answered",
             row'.pending.base <= server.rev,
             push'.mut.base \in {0, push.mut.base, row.pending.base},
             push'.base \in {0, push.base, push.mut.base, row.rev}
      PROVE  BoundInv'
  <2>1. push'.mut.base <= server.rev /\ push'.base <= server.rev
    BY <1>0, <1>2
  <2> QED
    BY <1>0, <1>1, <1>2, <2>1 DEF BoundInv, Below, Applying
<1>3. CASE PushStart \/ PushReadMissing \/ PushApplyGivesUp \/ PushFinish \/ PushFails
  <2>1. /\ UNCHANGED <<row, server>> /\ push'.pc # "answered"
        /\ push'.mut.base = 0 /\ push'.base = 0
    <3>1. CASE PushStart
      BY <3>1 DEF PushStart, PushIdle, NoMutation
    <3>2. CASE PushFinish
      BY <3>2 DEF PushFinish, PushIdle, NoMutation
    <3>3. CASE PushReadMissing \/ PushApplyGivesUp \/ PushFails
      BY <3>3 DEF PushReadMissing, PushApplyGivesUp, PushFails, PushAborts, PushIdle,
                  NoMutation
    <3> QED
      BY <1>3, <3>1, <3>2, <3>3
  <2> QED
    BY <1>0, <1>2, <2>1
<1>4. CASE PushTake
  <2>1. /\ UNCHANGED <<row, server>> /\ push'.pc # "answered"
        /\ push'.mut = row.pending /\ push'.base = push.base
    BY <1>0, <1>4 DEF PushTake, PushRecord
  <2> QED
    BY <1>0, <1>2, <2>1
<1>5. CASE PushRead
  <2>1. /\ UNCHANGED <<row, server>> /\ push'.pc # "answered" /\ push'.mut = push.mut
        /\ push'.base \in {push.base, push.mut.base, row.rev}
    BY <1>0, <1>5 DEF PushRead, PushRecord
  <2> QED
    BY <1>0, <1>2, <2>1
<1>6. CASE PushRequeue
  <2> DEFINE m == NewMutation(push.bytes, push.base)
  <2>1. m \in Mutation /\ m.base = push.base
    BY <1>0, MutationType DEF NewMutation
  <2>2. /\ row' = [row EXCEPT !.pending = m, !.local = push.bytes] /\ UNCHANGED server
        /\ push'.pc = "list" /\ push'.mut = push.mut /\ push'.base = push.base
    BY <1>0, <1>6 DEF PushRequeue, PushRecord
  <2> HIDE DEF m
  <2>3. row'.pending = m
    BY <1>0, <2>1, <2>2 DEF Row
  <2> QED
    BY <1>0, <1>2, <2>1, <2>2, <2>3
<1>7. CASE PushBlock
  <2> DEFINE m == [push.mut EXCEPT !.blocked = TRUE]
  <2>1. m \in Mutation /\ m.base = push.mut.base
    BY <1>0 DEF Mutation
  <2>2. /\ row' = [row EXCEPT !.pending = m] /\ UNCHANGED server
        /\ push'.pc = "list" /\ push'.mut = push.mut /\ push'.base = push.base
    BY <1>0, <1>7 DEF PushBlock, PushRecord
  <2> HIDE DEF m
  <2>3. row'.pending = m
    BY <1>0, <2>1, <2>2 DEF Row
  <2> QED
    BY <1>0, <1>2, <2>1, <2>2, <2>3
<1>8. CASE PushUpload \/ PushRejected \/ PushAccepted \/ PushPlan \/ PushApplyRetry
  <2>1. /\ UNCHANGED <<row, server>> /\ push'.pc # "answered"
        /\ push'.mut = push.mut /\ push'.base = push.base
    BY <1>0, <1>8 DEF PushUpload, PushRejected, PushAccepted, PushPlan, PushApplyRetry,
                      PushRecord
  <2> QED
    BY <1>0, <1>2, <2>1
<1>9. CASE PushCommit
  <2>1. UNCHANGED row /\ push'.mut = push.mut /\ push'.base = push.base
    BY <1>0, <1>9 DEF PushCommit, PushRecord
  <2>2. push'.result = "stale" => push.mut.base # server.rev /\ UNCHANGED server
    BY <1>0, <1>9 DEF PushCommit, PushRecord
  <2>3. server'.rev \in {server.rev, server.rev + 1}
    BY <1>9 DEF PushCommit
  <2>4. server'.rev \in Nat /\ server.rev <= server'.rev
    BY <1>0, <2>3
  <2>5. push'.result = "stale" => push'.mut.base < server'.rev
    BY <1>0, <2>1, <2>2
  <2>6. /\ row'.pending.base <= server'.rev /\ rec'.base <= server'.rev
        /\ push'.mut.base <= server'.rev /\ push'.base <= server'.rev
    BY <1>0, <1>1, <2>1, <2>4
  <2> QED
    BY <1>1, <2>5, <2>6 DEF BoundInv, Below, Applying
<1>10. CASE PushApply
  <2>1. /\ row' = AcceptedRow /\ UNCHANGED server /\ Settling
        /\ push'.pc = "list" /\ push'.mut = push.mut /\ push'.base = push.base
    BY <1>0, <1>10 DEF PushApply, PushRecord, Settling
  <2>2. push.rev <= server.rev
    BY <2>1 DEF EntryInv, Pushed, Books
  <2>3. row'.pending.base \in {0, push.rev}
    BY <1>0, <2>1 DEF AcceptedRow, NoMutation, Mutation
  <2> QED
    BY <1>0, <1>2, <2>1, <2>2, <2>3
<1> QED
  BY <1>3, <1>4, <1>5, <1>6, <1>7, <1>8, <1>9, <1>10 DEF Push

LEMMA PullBound ==
    ASSUME EntryInv, BoundInv, Pull \/ PullFails \/ PullVaultFails
    PROVE  BoundInv'
<1> USE DEF device, remote
<1>0. /\ pull \in PullRecord /\ row \in Row /\ pull.snap \in Row /\ server.rev \in Nat
      /\ NoMutation \in Mutation /\ NoMutation.base = 0
      /\ row.pending.base <= server.rev
      /\ Applying => pull.snap.pending.base <= server.rev
  BY Numbers, IdleTypes DEF EntryInv, Shape, PullRecord, BoundInv, Below, NoMutation
<1>1. UNCHANGED <<rec, push, server>>
  BY DEF Pull, PullFails, PullVaultFails, PullFetch, PullPlan, PullPrepare, PullInspect,
         PullBegin, PullCopy, PullVault, PullStore, PullCheckpoint
<1>2. ASSUME row'.pending.base <= server.rev,
             Applying' => pull'.snap.pending.base <= server.rev
      PROVE  BoundInv'
  BY <1>1, <1>2 DEF BoundInv, Below
<1>3. PathReleased(ConflictCleared).pending.base <= server.rev
  <2>1. ConflictCleared.pending \in {row.pending, NoMutation}
    BY <1>0 DEF ConflictCleared, Row
  <2>2. PathReleased(ConflictCleared).pending \in {ConflictCleared.pending, NoMutation}
    BY DEF PathReleased, UpsertedRow
  <2>3. PathReleased(ConflictCleared).pending \in {row.pending, NoMutation}
    BY <2>1, <2>2
  <2> QED
    BY <1>0, <2>3
<1>4. CASE PullFetch \/ PullCheckpoint \/ PullFails \/ PullVaultFails
  <2>1. /\ pull'.pc \in {"idle", "planned", "checkpoint"}
        /\ row' = row \/ (Applying /\ row' = pull.snap)
    <3>1. CASE PullFetch
      BY <3>1 DEF PullFetch, PullIdle
    <3>2. CASE PullCheckpoint \/ PullFails
      BY <3>2 DEF PullCheckpoint, PullFails, PullIdle
    <3>3. CASE PullVaultFails
      BY <3>3 DEF PullVaultFails, PullIdle, Applying
    <3> QED
      BY <1>4, <3>1, <3>2, <3>3
  <2> QED
    BY <1>0, <1>2, <2>1 DEF Applying
<1>5. CASE PullPlan \/ PullPrepare
  <2>1. UNCHANGED row /\ pull'.pc \in {"checkpoint", "prepare", "inspect", "begin"}
    BY <1>0, <1>5 DEF PullPlan, PullPrepare, PullRecord
  <2> QED
    BY <1>0, <1>2, <2>1 DEF Applying
<1>6. CASE PullInspect
  <2> DEFINE b == ~AlreadyRemote
             c == IF ~AlreadyRemote /\ pull.pend.hash # NoFile THEN disk ELSE NoFile
  <2>1. UNCHANGED row /\ pull' = [pull EXCEPT !.pc = "begin", !.keep = b, !.copy = c]
    BY <1>6 DEF PullInspect
  <2> HIDE DEF b, c
  <2>2. pull'.pc = "begin"
    BY <1>0, <2>1 DEF PullRecord
  <2> QED
    BY <1>0, <1>2, <2>1, <2>2 DEF Applying
<1>7. CASE PullBegin
  <2>1. /\ pull'.snap = row
        /\ row' = row \/ row' = PathReleased(ConflictCleared)
    BY <1>0, <1>7 DEF PullBegin, PullRecord
  <2> QED
    BY <1>0, <1>2, <1>3, <2>1
<1>8. CASE PullCopy \/ PullVault
  <2>1. /\ Applying /\ pull'.snap = pull.snap
        /\ row' = row \/ row' = PathReleased(ConflictCleared)
    BY <1>0, <1>8 DEF PullCopy, PullVault, PullRecord, Applying
  <2> QED
    BY <1>0, <1>2, <1>3, <2>1
<1>9. CASE PullStore
  <2>1. row'.pending = NoMutation /\ pull'.pc = "checkpoint"
    BY <1>0, <1>9 DEF PullStore, PullRecord, UpsertedRow
  <2> QED
    BY <1>0, <1>2, <2>1 DEF Applying
<1> QED
  BY <1>4, <1>5, <1>6, <1>7, <1>8, <1>9 DEF Pull

LEMMA BoundInvNext ==
    ASSUME EntryInv, BoundInv, [Next]_vars
    PROVE  BoundInv'
<1>1. CASE Notify \/ RemoteElsewhere \/ UNCHANGED vars
           \/ \E hash \in File : RemoteChange(hash)
  <2>1. UNCHANGED <<row, rec, push, pull>>
    BY <1>1 DEF Notify, RemoteElsewhere, RemoteChange, vars, device, drain
  <2>2. server'.rev \in {server.rev, server.rev + 1}
    BY <1>1 DEF Notify, RemoteElsewhere, RemoteChange, vars, remote, EntryInv, Shape,
                ServerRecord
  <2>3. /\ server.rev \in Nat /\ rec.base \in Nat /\ row.pending.base \in Nat
        /\ push.mut.base \in Nat /\ push.base \in Nat /\ pull.snap.pending.base \in Nat
    BY DEF EntryInv, Shape, ServerRecord, RecRecord, PushRecord, PullRecord, Row, Mutation
  <2> QED
    BY <2>1, <2>2, <2>3 DEF BoundInv, Below, Applying
<1> QED
  BY <1>1, LocalBound, PushBound, PullBound DEF Next, Environment

\* A commit is rejected as stale because its base is behind the server's
\* revision, with any overlap and any crash; and unless local work has run
\* beside a push or a pull since the entry was at rest, what made it stale lies
\* beyond the cursor, so isPullResolvableStaleRevision leaves it rightly to the
\* pull that follows.
THEOREM StaleIsResolved == Spec => []StaleIsPullable
<1> DEFINE Based == beside = {} => BaseInv
<1>1. Init => Based
  BY BaseInvInit
<1>2. EntryInv /\ Based /\ [Next]_vars => Based'
  BY BaseInvNext
<1>3. EntryInv /\ BoundInv /\ [Next]_vars => BoundInv'
  BY BoundInvNext
<1>4. Based /\ BoundInv => StaleIsPullable
  BY DEF BaseInv, BoundInv, StaleLiesAhead, StaleIsPullable
<1> HIDE DEF Based
<1> QED
  BY <1>1, <1>2, <1>3, <1>4, BoundInvInit, EntryInvariance, PTL DEF Spec

-----------------------------------------------------------------------------
(* Pending edits.  While no local work runs beside a pull, what it has       *)
(* looked at stays what it is about to settle.                              *)

EditInv ==
    /\ pull.pc = "inspect" => row.pending = pull.pend
    /\ pull.pc \in {"begin", "copy"} /\ IsDirty(row) =>
         /\ row.pending = pull.pend
         /\ pull.keep \/ pull.pend.hash = pull.hash
         /\ pull.copy = disk \/ pull.pend.hash \in {NoFile, pull.hash}
    /\ pull.pc \in {"vault", "store"} /\ IsDirty(row) =>
         row.pending.hash \in published \cup {NoFile}

\* A pending edit that the file still holds stays pending, or is out, or copied.
EditKept ==
    IsDirty(row) /\ row.pending.hash \in Content /\ row.pending.hash = disk
      => \/ IsDirty(row')
         \/ row.pending.hash \in published' \cup copies'
         \/ disk' # disk

LEMMA EditInvInit == Init => EditInv
  BY DEF Init, EditInv, PullIdle

LEMMA LocalEdits ==
    ASSUME EntryInv,
           \/ Recorder \/ PolicyUpdated \/ UserRemove \/ Restart \/ Crash
           \/ \E c \in Content : UserWrite(c)
    PROVE  /\ EditKept
           /\ "pull" \notin Met /\ EditInv => EditInv'
<1> USE DEF device, drain, remote
<1>0. /\ row \in Row /\ nextId \in Nat /\ nextId > 0
      /\ rec.hash \in File /\ rec.base \in Nat /\ disk \in File /\ row.rev \in Nat
      /\ NoFile \notin Content
      /\ rec.hash \in File \cup {Unknown} /\ disk \in File \cup {Unknown}
      /\ NoFile \in File
  BY Numbers, IdleTypes, EntrySyncAssumption DEF EntryInv, Shape, RecRecord, Ids
<1>1. ASSUME "pull" \notin Met, EditInv PROVE EditInv'
  <2>1. CASE Crash
    BY <2>1 DEF Crash, PullIdle, EditInv
  <2>2. CASE ~Crash
    <3>1. UNCHANGED <<push, pull, published>>
      BY <2>2, LocalSteps
    <3>2. CASE pull.pc = "idle"
      BY <3>1, <3>2 DEF EditInv
    <3>3. CASE pull.pc # "idle"
      <4>1. UNCHANGED <<disk, row>>
        BY <1>1, <3>1, <3>3, Unmet
      <4> QED
        BY <1>1, <3>1, <4>1 DEF EditInv
    <3> QED
      BY <3>2, <3>3
  <2> QED
    BY <2>1, <2>2
<1> SUFFICES EditKept
  BY <1>1
<1>5. ASSUME NEW m \in Mutation, NEW l \in File \cup {Unknown}, m.id # 0,
             \/ row' = [row EXCEPT !.pending = m, !.local = l]
             \/ row' = [row EXCEPT !.pending = m]
      PROVE  EditKept
  <2>1. row'.pending = m
    BY <1>0, <1>5 DEF Row
  <2> QED
    BY <1>5, <2>1 DEF EditKept, IsDirty
<1>6. ASSUME NEW hash \in File, NEW base \in Nat
      PROVE  NewMutation(hash, base) \in Mutation /\ NewMutation(hash, base).id # 0
  BY <1>0, <1>6, MutationType DEF NewMutation
<1>7. Unblocked(row).pending.id = row.pending.id
  BY <1>0 DEF Unblocked, Row, Mutation
<1>8. CASE UNCHANGED row
  BY <1>8 DEF EditKept
<1>9. CASE RecordUpsert
  <2> DEFINE m == NewMutation(rec.hash, rec.base)
  <2>1. m \in Mutation /\ m.id # 0
    BY <1>0, <1>6
  <2>2. row' = [row EXCEPT !.pending = m, !.local = rec.hash]
    BY <1>9 DEF RecordUpsert
  <2> HIDE DEF m
  <2> QED
    BY <1>0, <1>5, <2>1, <2>2
<1>10. CASE RecordDelete
  BY <1>0, <1>10 DEF RecordDelete, EditKept
<1>11. CASE RecordDeleteQueued
  <2> DEFINE m == NewMutation(NoFile, rec.base)
  <2>1. m \in Mutation /\ m.id # 0
    BY <1>0, <1>6
  <2>2. row' = [row EXCEPT !.pending = m]
    BY <1>11 DEF RecordDeleteQueued
  <2> HIDE DEF m
  <2> QED
    BY <1>0, <1>5, <2>1, <2>2
<1>12. CASE PolicyUpdated
  <2>1. row' = Unblocked(row)
    BY <1>12 DEF PolicyUpdated
  <2> HIDE DEF Unblocked
  <2> QED
    BY <1>7, <2>1 DEF EditKept, IsDirty
<1>13. CASE Restart
  <2> DEFINE m == NewMutation(disk, row.rev)
  <2>1. m \in Mutation /\ m.id # 0
    BY <1>0, <1>6
  <2>2. \/ row' = [row EXCEPT !.pending = m, !.local = disk]
        \/ disk = NoFile
        \/ row' = Unblocked(row)
    BY <1>13 DEF Restart, ReconcileDelete
  <2> HIDE DEF m, Unblocked
  <2>3. CASE row' = [row EXCEPT !.pending = m, !.local = disk]
    BY <1>0, <1>5, <2>1, <2>3
  <2>4. CASE disk = NoFile
    BY <1>0, <2>4 DEF EditKept
  <2>5. CASE row' = Unblocked(row)
    BY <1>7, <2>5 DEF EditKept, IsDirty
  <2> QED
    BY <2>2, <2>3, <2>4, <2>5
<1>14. CASE Crash
  <2> DEFINE m == NewMutation(rec.hash, rec.base)
  <2>1. m \in Mutation /\ m.id # 0
    BY <1>0, <1>6
  <2>2. row' = row \/ row' = [row EXCEPT !.pending = m]
    BY <1>14 DEF Crash
  <2> HIDE DEF m
  <2> QED
    BY <1>0, <1>5, <1>8, <2>1, <2>2
<1>15. RecordDrop \/ RecordRead \/ RecordHashed \/ UserRemove
       \/ (\E c \in Content : UserWrite(c)) => UNCHANGED row
  BY DEF RecordDrop, RecordRead, RecordHashed, UserRemove, UserWrite
<1> QED
  BY <1>8, <1>9, <1>10, <1>11, <1>12, <1>13, <1>14, <1>15 DEF Recorder

LEMMA PushEdits ==
    ASSUME EntryInv, Push \/ PushFails
    PROVE  EditInv' /\ EditKept
<1> USE DEF device, remote
<1>0. /\ push \in PushRecord /\ row \in Row /\ row.pending \in Mutation
      /\ push.mut \in Mutation /\ nextId \in Nat /\ nextId > 0
      /\ push.bytes \in File /\ push.base \in Nat /\ push.bytes \in File \cup {Unknown}
      /\ NoFile \notin Content
  BY Numbers, EntrySyncAssumption DEF EntryInv, Shape, PushRecord, Ids
<1>1. pull'.pc = "idle"
  BY DEF EntryInv, Turns, DrainIdle, Push, PushFails, PushStart, PushTake,
         PushRead, PushReadMissing, PushRequeue, PushUpload, PushBlock, PushCommit,
         PushRejected, PushAccepted, PushPlan, PushApply, PushApplyRetry,
         PushApplyGivesUp, PushFinish, PushAborts
<1>2. EditInv'
  BY <1>1 DEF EditInv
<1> SUFFICES EditKept
  BY <1>2
<1>3. CASE UNCHANGED row
  BY <1>3 DEF EditKept
<1>4. CASE PushRequeue
  <2> DEFINE m == NewMutation(push.bytes, push.base)
  <2>1. m \in Mutation /\ m.id # 0
    BY <1>0, MutationType DEF NewMutation
  <2>2. row' = [row EXCEPT !.pending = m, !.local = push.bytes]
    BY <1>4 DEF PushRequeue
  <2> HIDE DEF m
  <2>3. row'.pending = m
    BY <1>0, <2>2 DEF Row
  <2> QED
    BY <2>1, <2>3 DEF EditKept, IsDirty
<1>5. CASE PushBlock
  <2> DEFINE m == [push.mut EXCEPT !.blocked = TRUE]
  <2>1. push.mut.id # 0
    BY <1>5, Numbers DEF PushBlock, EntryInv, Ids, Working
  <2>2. m \in Mutation /\ m.id # 0
    BY <1>0, <2>1 DEF Mutation
  <2>3. row' = [row EXCEPT !.pending = m]
    BY <1>5 DEF PushBlock
  <2> HIDE DEF m
  <2>4. row'.pending = m
    BY <1>0, <2>3 DEF Row
  <2> QED
    BY <2>2, <2>4 DEF EditKept, IsDirty
<1>6. CASE PushApply
  <2>1. Working /\ Settling /\ InPlay(push.mut) /\ row' = AcceptedRow
    BY <1>6 DEF PushApply, Working, Settling, InPlay
  <2>2. push.mut.hash \in published \cup {NoFile} /\ UNCHANGED published
    BY <1>0, <1>6, <2>1 DEF EntryInv, News, Pushed, PushApply
  <2>3. CASE NewerPending
    <3>1. row'.pending = [row.pending EXCEPT !.base = push.rev]
      BY <2>1, <2>3 DEF AcceptedRow
    <3>2. row'.pending.id = row.pending.id
      BY <1>0, <3>1 DEF Mutation
    <3> QED
      BY <3>2 DEF EditKept, IsDirty
  <2>4. CASE IsDirty(row) /\ row.pending.id = push.mut.id
    <3>1. row.pending.hash = push.mut.hash
      BY <2>1, <2>4 DEF EntryInv, Pushed
    <3> QED
      BY <1>0, <2>2, <3>1 DEF EditKept
  <2> QED
    BY <2>3, <2>4 DEF NewerPending, EditKept
<1>7. CASE PushStart \/ PushTake \/ PushRead \/ PushReadMissing \/ PushUpload \/ PushCommit
           \/ PushRejected \/ PushAccepted \/ PushPlan \/ PushApplyRetry
           \/ PushApplyGivesUp \/ PushFinish \/ PushFails
  <2>1. UNCHANGED row
    BY <1>7 DEF PushStart, PushTake, PushRead, PushReadMissing, PushUpload, PushCommit,
                PushRejected, PushAccepted, PushPlan, PushApplyRetry, PushApplyGivesUp,
                PushFinish, PushFails, PushAborts
  <2> QED
    BY <1>3, <2>1
<1> QED
  BY <1>4, <1>5, <1>6, <1>7 DEF Push

LEMMA PullEdits ==
    ASSUME EntryInv, EditInv, Pull \/ PullFails \/ PullVaultFails
    PROVE  EditInv' /\ EditKept
<1> USE DEF device, remote
<1>0. /\ pull \in PullRecord /\ row \in Row /\ NoFile \notin Content
      /\ IsDirty(row) => row.pending.id # 0
  BY EntrySyncAssumption DEF EntryInv, Shape, IsDirty
<1>1. pull.pc # "idle" /\ pull.pc # "checkpoint" => pull.hash \in published \cup {NoFile}
  BY DEF EntryInv, Pulled, Pulling
\* What releasing and clearing leave pending is what is already out.
<1>2. ASSUME pull.pc \in {"begin", "copy"}, row' = PathReleased(ConflictCleared),
             IsDirty(row')
      PROVE  /\ row'.pending = row.pending
             /\ row.pending.hash \in published \cup {NoFile}
  <2>1. Planned
    BY <1>2 DEF Planned, Pulling
  <2>2. row'.pending = row.pending \/ row'.pending.id = 0
    BY <1>2, <2>1, ReleaseKeeps
  <2>3. row'.pending = row.pending /\ IsDirty(row) /\ row.pending.id # 0
    BY <1>2, <2>2 DEF IsDirty
  <2>4. row.pending = pull.pend /\ (pull.keep \/ pull.pend.hash = pull.hash)
    BY <1>2, <2>3 DEF EditInv
  <2>5. CASE pull.keep
    <3>1. ConflictCleared = [row EXCEPT !.pending = NoMutation]
      BY <2>4, <2>5 DEF ConflictCleared
    <3>2. ConflictCleared.pending = NoMutation
      BY <1>0, <3>1 DEF Row
    <3>3. row'.pending = NoMutation
      BY <1>2, <3>2 DEF PathReleased, UpsertedRow
    <3> QED
      BY <2>3, <3>3 DEF NoMutation
  <2>6. CASE pull.pend.hash = pull.hash
    BY <1>1, <1>2, <2>3, <2>4, <2>6
  <2> QED
    BY <2>4, <2>5, <2>6
<1>3. CASE UNCHANGED row
           /\ pull'.pc \in {"idle", "planned", "prepare", "checkpoint"}
  BY <1>3 DEF EditInv, EditKept
<1>4. CASE PullFetch \/ PullCheckpoint \/ PullFails \/ PullPlan
  <2>1. UNCHANGED row
    BY <1>4 DEF PullFetch, PullPlan, PullCheckpoint, PullFails
  <2>2. pull'.pc \in {"idle", "planned", "prepare", "checkpoint"}
    <3>1. CASE PullFetch
      BY <3>1 DEF PullFetch, PullIdle
    <3>2. CASE PullCheckpoint \/ PullFails
      BY <3>2 DEF PullCheckpoint, PullFails, PullIdle
    <3>3. CASE PullPlan
      BY <1>0, <3>3 DEF PullPlan, PullRecord
    <3> QED
      BY <1>4, <3>1, <3>2, <3>3
  <2> QED
    BY <1>3, <2>1, <2>2
<1>5. CASE PullPrepare
  <2>1. /\ UNCHANGED row /\ pull'.pend = row.pending
        /\ pull'.pc = IF IsDirty(row) THEN "inspect" ELSE "begin"
    BY <1>0, <1>5 DEF PullPrepare, PullRecord
  <2>2. EditInv'
    BY <2>1 DEF EditInv
  <2> QED
    BY <2>1, <2>2 DEF EditKept
<1>6. CASE PullInspect
  <2> DEFINE b == ~AlreadyRemote
             c == IF ~AlreadyRemote /\ pull.pend.hash # NoFile THEN disk ELSE NoFile
  <2>0. /\ b \/ pull.pend.hash = pull.hash
        /\ c = disk \/ pull.pend.hash \in {NoFile, pull.hash}
    BY DEF AlreadyRemote
  <2>1. /\ pull' = [pull EXCEPT !.pc = "begin", !.keep = b, !.copy = c]
        /\ UNCHANGED <<row, disk>> /\ pull.pc = "inspect"
    BY <1>6 DEF PullInspect
  <2> HIDE DEF b, c
  <2>2. /\ pull'.pc = "begin" /\ pull'.keep = b /\ pull'.copy = c
        /\ pull'.pend = pull.pend /\ pull'.hash = pull.hash
    BY <1>0, <2>1 DEF PullRecord
  <2>3. row.pending = pull.pend
    BY <2>1 DEF EditInv
  <2>4. EditInv'
    BY <2>0, <2>1, <2>2, <2>3 DEF EditInv
  <2> QED
    BY <2>1, <2>4 DEF EditKept
<1>7. CASE PullBegin
  <2>1. /\ pull.pc = "begin" /\ UNCHANGED <<disk, published>>
        /\ pull'.keep = pull.keep /\ pull'.copy = pull.copy
        /\ pull'.pend = pull.pend /\ pull'.hash = pull.hash
        /\ \/ pull.copy # NoFile /\ pull'.pc = "copy" /\ UNCHANGED row
           \/ /\ pull.copy = NoFile /\ pull'.pc = "vault"
              /\ row' = PathReleased(ConflictCleared)
    BY <1>0, <1>7 DEF PullBegin, PullRecord
  <2>2. CASE pull'.pc = "copy" /\ UNCHANGED row
    <3>1. EditInv'
      BY <2>1, <2>2 DEF EditInv
    <3> QED
      BY <2>2, <3>1 DEF EditKept
  <2>3. CASE pull.copy = NoFile /\ pull'.pc = "vault"
             /\ row' = PathReleased(ConflictCleared)
    <3>1. EditInv'
      BY <1>2, <2>1, <2>3 DEF EditInv
    <3>2. ASSUME IsDirty(row), row.pending.hash \in Content, row.pending.hash = disk
          PROVE  row.pending.hash \in published
      BY <1>0, <1>1, <2>1, <2>3, <3>2 DEF EditInv
    <3>3. EditKept
      BY <2>1, <3>2 DEF EditKept
    <3> QED
      BY <3>1, <3>3
  <2> QED
    BY <2>1, <2>2, <2>3
<1>8. CASE PullCopy
  <2>1. /\ pull.pc = "copy" /\ pull'.pc = "vault" /\ UNCHANGED published
        /\ copies' = copies \cup {pull.copy} /\ row' = PathReleased(ConflictCleared)
    BY <1>0, <1>8 DEF PullCopy, PullRecord
  <2>2. EditInv'
    BY <1>2, <2>1 DEF EditInv
  <2>3. ASSUME IsDirty(row), row.pending.hash \in Content, row.pending.hash = disk
        PROVE  row.pending.hash \in published \cup copies'
    BY <1>0, <1>1, <2>1, <2>3 DEF EditInv
  <2>4. EditKept
    BY <2>1, <2>3 DEF EditKept
  <2> QED
    BY <2>2, <2>4
<1>9. CASE PullVault
  <2>1. pull.pc = "vault" /\ pull'.pc = "store" /\ UNCHANGED <<row, published>>
    BY <1>0, <1>9 DEF PullVault, PullRecord
  <2> QED
    BY <2>1 DEF EditInv, EditKept
<1>10. CASE PullStore \/ PullVaultFails
  <2>1. /\ pull.pc \in {"vault", "store"} /\ UNCHANGED published
        /\ pull'.pc \in {"idle", "checkpoint"}
    BY <1>0, <1>10 DEF PullStore, PullVaultFails, PullIdle, PullRecord
  <2> QED
    BY <1>0, <2>1 DEF EditInv, EditKept
<1> QED
  BY <1>4, <1>5, <1>6, <1>7, <1>8, <1>9, <1>10 DEF Pull

LEMMA OtherEdits ==
    ASSUME EntryInv, EditInv,
           \/ Notify \/ RemoteElsewhere \/ UNCHANGED vars
           \/ \E hash \in File : RemoteChange(hash)
    PROVE  EditInv' /\ EditKept
<1>1. UNCHANGED <<row, pull, disk>> /\ published \subseteq published'
  BY DEF Notify, RemoteElsewhere, RemoteChange, vars, device, drain, remote
<1> QED
  BY <1>1 DEF EditInv, EditKept

LEMMA EditsNext ==
    ASSUME EntryInv, "pull" \notin beside => EditInv, [Next]_vars
    PROVE  /\ "pull" \notin beside' => EditInv'
           /\ "pull" \notin beside => EditKept
<1>1. /\ "pull" \notin beside => EditKept
      /\ "pull" \notin beside /\ "pull" \notin Met => EditInv'
  <2>1. CASE \/ Recorder \/ PolicyUpdated \/ UserRemove \/ Restart \/ Crash
             \/ \E c \in Content : UserWrite(c)
    BY <2>1, LocalEdits
  <2>2. CASE Push \/ PushFails
    BY <2>2, PushEdits
  <2>3. CASE Pull \/ PullFails \/ PullVaultFails
    BY <2>3, PullEdits
  <2>4. CASE Notify \/ RemoteElsewhere \/ UNCHANGED vars
             \/ \E hash \in File : RemoteChange(hash)
    BY <2>4, OtherEdits
  <2> QED
    BY <2>1, <2>2, <2>3, <2>4 DEF Next, Environment
<1>2. CASE UNCHANGED vars
  <2>1. "pull" \notin beside => EditInv'
    BY <1>2, OtherEdits
  <2> QED
    BY <1>1, <1>2, <2>1 DEF vars
<1>3. CASE AtRest'
  BY <1>1, <1>3 DEF AtRest, DrainIdle, EditInv
<1>4. CASE beside' = beside \cup Met
  BY <1>1, <1>4
<1> QED
  BY <1>2, <1>3, <1>4, History

\* Unless local work has run beside a pull since the entry was at rest, a pending
\* edit that is still what the file holds leaves the store only when its content
\* is published or in a conflict copy: an acceptance settles what it was given
\* for and spares a newer mutation (applyAcceptedPushToEntry), and a pull clears
\* only what it has copied or found to be remote
\* (prepareConflictingPendingMutation).  Work beside a push is no exception.
THEOREM EditsSurvive == Spec => PendingEditSurvives
<1> DEFINE Looked == "pull" \notin beside => EditInv
<1>1. Init => Looked
  BY EditInvInit
<1>2. EntryInv /\ Looked /\ [Next]_vars => Looked'
  BY EditsNext
<1>3. EntryInv /\ Looked /\ [Next]_vars =>
        [IsDirty(row) /\ row.pending.hash \in Content /\ row.pending.hash = disk
           => \/ IsDirty(row')
              \/ row.pending.hash \in published' \cup copies'
              \/ disk' # disk
              \/ "pull" \in beside]_vars
  BY EditsNext DEF EditKept
<1> HIDE DEF Looked
<1> QED
  BY <1>1, <1>2, <1>3, EntryInvariance, PTL DEF Spec, PendingEditSurvives

-----------------------------------------------------------------------------
(* What the file holds.  While local work runs beside neither a push nor a   *)
(* pull, a pull that is about to touch the file knows where else its content *)
(* is.                                                                       *)

\* The contents some other device or a conflict copy holds, and no content.
Out == published \cup copies \cup {NoFile}

\* Nothing the user did waits for the recorder or is in its hands.
Quiet == up /\ ~event /\ rec.pc = "idle"

\* The row knows what the file holds.
LocalIs(r) == r.local = disk \/ (disk = NoFile /\ r.local = Unknown)

\* What a row without a pending mutation says the file holds is out; a pending
\* delete is of a file the row knows to be gone.
Sound(r) == /\ IsDirty(r) \/ r.local \in Out \cup {Unknown}
            /\ IsDirty(r) /\ r.pending.hash = NoFile => r.local = NoFile

\* A pull is on its way to the file.
Before == pull.pc \in {"planned", "prepare", "inspect", "begin", "copy", "vault"}

Calm == push.pc # "idle" \/ Before => Quiet

\* What the recorder holds is what the file holds, or it will hear again.
Heard ==
    /\ rec.pc \in {"hash", "encrypt"} =>
         rec.hash \in Content /\ (event \/ rec.hash = disk)
    /\ rec.pc = "encryptDelete" => row.local = NoFile /\ (event \/ disk = NoFile)

Known ==
    /\ Quiet /\ pull.pc \notin {"vault", "store"} => LocalIs(row)
    /\ ~ReleasedTombstone => Sound(row)

Sent ==
    /\ Working => row.pending.id = push.mut.id
    /\ push.pc = "requeue" => push.bytes = disk /\ disk # NoFile
    /\ push.pc \in {"upload", "refused", "ready", "answered", "plan", "apply"}
         => push.mut.hash \in {NoFile, disk}

Fetched ==
    /\ Before /\ pull.pc # "planned" =>
         /\ pull.skip => disk = pull.hash
         /\ pull.hash = NoFile /\ CombinedHash(pull.old) = NoFile => disk = NoFile
    /\ pull.pc \in {"begin", "copy"} => disk \in Out \/ pull.copy = disk
    /\ pull.pc \in {"copy", "vault"} => LocalIs(pull.snap) /\ Sound(pull.snap)
    /\ pull.pc = "vault" => disk \in Out
    /\ pull.pc = "store" => disk = pull.hash

FileInv == Calm /\ Heard /\ Known /\ Sent /\ Fetched

LEMMA FileInvInit == Init => FileInv
<1> SUFFICES ASSUME Init PROVE FileInv
  OBVIOUS
<1>1. /\ rec.pc = "idle" /\ push.pc = "idle" /\ pull.pc = "idle"
      /\ LocalIs(row) /\ row.pending.id = 0
      /\ row.local \in Out \cup {Unknown}
  BY DEF Init, RecIdle, PushIdle, PullIdle, LocalIs, Out, EmptyRow, UpsertedRow,
         NoMutation
<1> QED
  BY <1>1 DEF FileInv, Calm, Before, Heard, Known, Sound, IsDirty, Sent, Working, Fetched

\* A crash, or a step of a resting drain.
LEMMA LocalFile ==
    ASSUME EntryInv, FileInv,
           \/ Crash
           \/ /\ DrainIdle
              /\ \/ Recorder \/ PolicyUpdated \/ UserRemove \/ Restart
                 \/ \E c \in Content : UserWrite(c)
    PROVE  FileInv'
<1> USE DEF device, drain, remote
<1>0. /\ row \in Row /\ nextId \in Nat /\ nextId > 0
      /\ rec.hash \in File /\ rec.base \in Nat /\ disk \in File /\ row.rev \in Nat
      /\ rec \in RecRecord /\ row.local \in File \cup {Unknown}
      /\ NoFile \notin Content /\ Unknown \notin Content /\ NoFile # Unknown
      /\ rec.hash \in File \cup {Unknown} /\ disk \in File \cup {Unknown}
      /\ NoFile \in File /\ NoMutation \in Mutation /\ NoMutation.id = 0
      /\ NoFile \in File \cup {Unknown}
      /\ ~up => DrainIdle /\ rec.pc = "idle"
  BY Numbers, IdleTypes, EntrySyncAssumption
  DEF EntryInv, Shape, RecRecord, Ids, Turns, DrainIdle, Row
<1>1. ASSUME NEW m \in Mutation, NEW l \in File \cup {Unknown},
             row' = [row EXCEPT !.pending = m, !.local = l]
      PROVE  row'.pending = m /\ row'.local = l
  BY <1>0, <1>1 DEF Row
<1>2. ASSUME NEW m \in Mutation, row' = [row EXCEPT !.pending = m]
      PROVE  row'.pending = m /\ row'.local = row.local
  BY <1>0, <1>2 DEF Row
<1>3. ASSUME NEW hash \in File, NEW base \in Nat
      PROVE  /\ NewMutation(hash, base) \in Mutation
             /\ NewMutation(hash, base).id # 0
             /\ NewMutation(hash, base).hash = hash
  BY <1>0, <1>3, MutationType DEF NewMutation
<1>4. /\ EmptyRow.pending.id = 0 /\ EmptyRow.local = Unknown
  BY DEF EmptyRow, NoMutation
<1>5. /\ Unblocked(row).pending.id = row.pending.id
      /\ Unblocked(row).pending.hash = row.pending.hash
      /\ Unblocked(row).local = row.local
  BY <1>0 DEF Unblocked, Row, Mutation
\* While the drain rests, only the recorder and the row count.
<1>6. ASSUME push'.pc = "idle", pull'.pc = "idle", Heard', Quiet' => LocalIs(row)',
             UNCHANGED <<published, copies>>,
             \/ row'.local \in Out \cup {Unknown} /\ row'.pending.id = 0
             \/ row'.pending.id # 0 /\ row'.pending.hash # NoFile
             \/ row'.pending.id # 0 /\ row'.local = NoFile
             \/ /\ row'.pending.id = row.pending.id /\ row'.local = row.local
                /\ row'.pending.hash = row.pending.hash
                /\ Sound(row)
      PROVE  FileInv'
  <2>1. Sound(row)'
    BY <1>6 DEF Sound, IsDirty, Out
  <2> QED
    BY <1>6, <2>1 DEF FileInv, Calm, Before, Known, Sent, Working, Fetched
<1>7. DrainIdle => Sound(row)
  BY DEF FileInv, Known, ReleasedTombstone, DrainIdle
<1>8. CASE DrainIdle /\ RecordDrop
  BY <1>0, <1>8 DEF RecordDrop, Suppressed, DrainIdle
<1>9. CASE DrainIdle /\ RecordRead
  <2>1. /\ DrainIdle /\ UNCHANGED <<push, pull, row, disk, copies, published>>
        /\ rec'.pc = "hash" /\ rec'.hash = disk /\ disk \in Content
    BY <1>0, <1>9 DEF RecordRead, RecIdle, File
  <2>2. Heard' /\ ~Quiet'
    BY <2>1 DEF Heard, Quiet
  <2> QED
    BY <1>6, <1>7, <2>1, <2>2 DEF DrainIdle
<1>10. CASE DrainIdle /\ RecordHashed
  <2>1. /\ DrainIdle /\ UNCHANGED <<push, pull, row, disk, copies, published, event>>
        /\ rec.pc = "hash"
        /\ \/ rec'.pc = "idle" /\ row.local = rec.hash
           \/ rec'.pc = "encrypt" /\ rec'.hash = rec.hash
    BY <1>0, <1>10
    DEF RecordHashed, RecIdle, RecRecord, NothingNew, Suppressed, DrainIdle
  <2>2. Heard' /\ (Quiet' => LocalIs(row)')
    BY <2>1 DEF FileInv, Heard, Quiet, LocalIs
  <2> QED
    BY <1>6, <1>7, <2>1, <2>2 DEF DrainIdle
<1>11. CASE DrainIdle /\ RecordUpsert
  <2> DEFINE m == NewMutation(rec.hash, rec.base)
  <2>1. m \in Mutation /\ m.id # 0 /\ m.hash = rec.hash
    BY <1>0, <1>3
  <2>2. /\ row' = [row EXCEPT !.pending = m, !.local = rec.hash]
        /\ rec.pc = "encrypt" /\ rec'.pc = "idle" /\ DrainIdle
        /\ UNCHANGED <<push, pull, disk, event, copies, published>>
    BY <1>0, <1>11 DEF RecordUpsert, RecIdle
  <2> HIDE DEF m
  <2>3. row'.pending = m /\ row'.local = rec.hash
    BY <1>0, <1>1, <2>1, <2>2
  <2>4. rec.hash \in Content /\ Heard' /\ (Quiet' => LocalIs(row)')
    BY <2>2, <2>3 DEF FileInv, Heard, Quiet, LocalIs
  <2> QED
    BY <1>0, <1>6, <2>1, <2>2, <2>3, <2>4 DEF DrainIdle
<1>12. CASE DrainIdle /\ RecordDelete
  <2>1. /\ DrainIdle /\ UNCHANGED <<push, pull, disk, copies, published>>
        /\ disk = NoFile
        /\ \/ row' = row /\ row.local \notin Content /\ rec'.pc = "idle"
           \/ row' = EmptyRow /\ rec'.pc = "idle"
           \/ row' = [row EXCEPT !.pending = NoMutation, !.local = NoFile]
    BY <1>0, <1>12 DEF RecordDelete, KnownAtPath, RecIdle
  <2>2. \/ row' = row /\ row'.local \in {NoFile, Unknown}
        \/ row'.pending.id = 0 /\ row'.local \in {NoFile, Unknown}
    BY <1>0, <1>1, <1>4, <2>1 DEF File
  <2>3. LocalIs(row)'
    BY <2>1, <2>2 DEF LocalIs
  <2>4. rec'.pc \in {"idle", "encryptDelete"}
        /\ (rec'.pc = "encryptDelete" => row'.local = NoFile)
    BY <1>0, <1>1, <1>12 DEF RecordDelete, RecIdle
  <2>5. Heard'
    BY <2>1, <2>4 DEF Heard
  <2> QED
    BY <1>6, <1>7, <2>1, <2>2, <2>3, <2>5 DEF DrainIdle, Out
<1>13. CASE DrainIdle /\ RecordDeleteQueued
  <2> DEFINE m == NewMutation(NoFile, rec.base)
  <2>1. m \in Mutation /\ m.id # 0
    BY <1>0, <1>3
  <2>2. /\ row' = [row EXCEPT !.pending = m]
        /\ rec.pc = "encryptDelete" /\ rec'.pc = "idle" /\ DrainIdle
        /\ UNCHANGED <<push, pull, disk, event, copies, published>>
    BY <1>0, <1>13 DEF RecordDeleteQueued, RecIdle
  <2> HIDE DEF m
  <2>3. row'.pending = m /\ row'.local = row.local
    BY <1>2, <2>1, <2>2
  <2>4. row.local = NoFile /\ Heard' /\ (Quiet' => LocalIs(row)')
    BY <2>2, <2>3 DEF FileInv, Heard, Quiet, LocalIs
  <2> QED
    BY <1>6, <2>1, <2>2, <2>3, <2>4 DEF DrainIdle
<1>14. CASE DrainIdle /\ PolicyUpdated
  <2>1. /\ DrainIdle /\ row' = Unblocked(row)
        /\ UNCHANGED <<push, pull, rec, disk, event, up, copies, published>>
    BY <1>0, <1>14 DEF PolicyUpdated
  <2> HIDE DEF Unblocked
  <2>2. /\ row'.pending.id = row.pending.id /\ row'.pending.hash = row.pending.hash
        /\ row'.local = row.local
    BY <1>5, <2>1
  <2>3. Heard' /\ (Quiet' => LocalIs(row)')
    BY <2>1, <2>2 DEF FileInv, Heard, Known, Quiet, LocalIs, DrainIdle
  <2> QED
    BY <1>6, <1>7, <2>1, <2>2, <2>3 DEF DrainIdle
<1>15. CASE DrainIdle /\ (UserRemove \/ \E c \in Content : UserWrite(c))
  <2>1. /\ DrainIdle /\ UNCHANGED <<push, pull, rec, row, up, copies, published>>
        /\ event' = up
    BY <1>0, <1>15 DEF UserRemove, UserWrite
  <2>2. Heard' /\ ~Quiet'
    BY <1>0, <2>1 DEF FileInv, Heard, Quiet
  <2> QED
    BY <1>6, <1>7, <2>1, <2>2 DEF DrainIdle
<1>16. CASE DrainIdle /\ Restart
  <2> DEFINE m == NewMutation(disk, row.rev)
  <2>1. m \in Mutation /\ m.id # 0 /\ m.hash = disk
    BY <1>0, <1>3
  <2>2. /\ DrainIdle /\ rec.pc = "idle"
        /\ UNCHANGED <<push, pull, rec, disk, copies, published>>
        /\ \/ row' = [row EXCEPT !.pending = m, !.local = disk]
           \/ row' = EmptyRow /\ disk = NoFile
           \/ /\ row' = Unblocked(row)
              /\ disk # NoFile => row.local = disk
              /\ disk = NoFile => row.local \notin Content
    BY <1>0, <1>16 DEF Restart, ReconcileUpsert, ReconcileDelete
  <2> HIDE DEF m, Unblocked
  <2>3. Heard'
    BY <2>2 DEF Heard
  <2>4. CASE row' = [row EXCEPT !.pending = m, !.local = disk]
    <3>1. row'.pending = m /\ row'.local = disk
      BY <1>0, <1>1, <2>1, <2>4
    <3> QED
      BY <1>6, <2>1, <2>2, <2>3, <3>1 DEF DrainIdle, LocalIs
  <2>5. CASE row' = EmptyRow /\ disk = NoFile
    BY <1>4, <1>6, <2>2, <2>3, <2>5 DEF DrainIdle, LocalIs
  <2>6. CASE /\ row' = Unblocked(row)
             /\ disk # NoFile => row.local = disk
             /\ disk = NoFile => row.local \notin Content
    <3>1. /\ row'.pending.id = row.pending.id /\ row'.pending.hash = row.pending.hash
          /\ row'.local = row.local
      BY <1>5, <2>6
    <3>2. LocalIs(row)'
      BY <1>0, <2>2, <2>6, <3>1 DEF LocalIs, File
    <3> QED
      BY <1>6, <1>7, <2>2, <2>3, <3>1, <3>2 DEF DrainIdle
  <2> QED
    BY <2>2, <2>4, <2>5, <2>6
<1>17. CASE Crash
  <2> DEFINE m == NewMutation(rec.hash, rec.base)
  <2>1. m \in Mutation /\ m.id # 0 /\ m.hash = rec.hash
    BY <1>0, <1>3
  <2>2. /\ push'.pc = "idle" /\ pull'.pc = "idle" /\ rec'.pc = "idle" /\ ~up'
        /\ UNCHANGED <<copies, published>> /\ ~ReleasedTombstone
        /\ \/ row' = row
           \/ rec.pc = "encrypt" /\ row' = [row EXCEPT !.pending = m]
    BY <1>17 DEF Crash, PushIdle, PullIdle, RecIdle
  <2> HIDE DEF m
  <2>3. Heard' /\ ~Quiet' /\ Sound(row)
    BY <2>2 DEF Heard, Quiet, FileInv, Known
  <2>4. CASE row' = row
    BY <1>6, <2>2, <2>3, <2>4
  <2>5. CASE rec.pc = "encrypt" /\ row' = [row EXCEPT !.pending = m]
    <3>1. row'.pending = m /\ rec.hash \in Content
      BY <1>2, <2>1, <2>5 DEF FileInv, Heard
    <3> QED
      BY <1>0, <1>6, <2>1, <2>2, <2>3, <3>1
  <2> QED
    BY <2>2, <2>4, <2>5
<1> QED
  BY <1>8, <1>9, <1>10, <1>11, <1>12, <1>13, <1>14, <1>15, <1>16, <1>17 DEF Recorder

\* What local work may do beside a push or a pull and meet neither: take an event
\* it has nothing to record for.
LEMMA UnmetFile ==
    ASSUME EntryInv, FileInv, Met = {}, ~DrainIdle,
           \/ Recorder \/ PolicyUpdated \/ UserRemove \/ Restart
           \/ \E c \in Content : UserWrite(c)
    PROVE  FileInv'
<1> USE DEF device, drain, remote
<1>0. /\ UNCHANGED <<push, pull, published, copies, disk, rec, row, limited>>
      /\ row.local \in File \cup {Unknown} /\ disk \in File /\ up
  BY LocalSteps, Unmet DEF EntryInv, Shape, Row, Turns, DrainIdle
<1>1. /\ event /\ rec.pc = "idle" /\ UNCHANGED up
      /\ \/ pull.pc \in {"copy", "vault", "store"}
         \/ disk = NoFile /\ row.local \in {NoFile, Unknown}
  <2>1. CASE RecordDrop
    BY <2>1 DEF RecordDrop, Suppressed
  <2>2. CASE RecordRead
    BY <1>0, <2>2 DEF RecordRead, RecIdle
  <2>3. CASE RecordHashed
    <3>1. rec'.pc \in {"idle", "encrypt"}
      BY <2>3 DEF RecordHashed, RecIdle, EntryInv, Shape, RecRecord
    <3> QED
      BY <1>0, <2>3, <3>1 DEF RecordHashed
  <2>4. CASE RecordUpsert \/ RecordDeleteQueued
    <3>1. rec.pc \in {"encrypt", "encryptDelete"} /\ rec'.pc = "idle"
      BY <2>4 DEF RecordUpsert, RecordDeleteQueued, RecIdle
    <3> QED
      BY <1>0, <3>1
  <2>5. CASE RecordDelete
    <3>1. event /\ rec.pc = "idle" /\ UNCHANGED up /\ disk = NoFile
      BY <2>5 DEF RecordDelete
    <3>2. CASE ~KnownAtPath
      BY <1>0, <3>1, <3>2 DEF KnownAtPath, File
    <3>3. CASE KnownAtPath
      <4>1. row.rev = 0 /\ row' = EmptyRow
        <5>1. rec'.pc = "encryptDelete" \/ row' = EmptyRow
          BY <2>5, <3>3 DEF RecordDelete, RecIdle
        <5>2. row' = EmptyRow
          BY <1>0, <3>1, <5>1
        <5> QED
          BY <1>0, <5>2 DEF EmptyRow
      <4>2. row.local = Unknown
        BY <1>0, <4>1 DEF EmptyRow
      <4> QED
        BY <3>1, <4>2
    <3> QED
      BY <3>2, <3>3
  <2>6. CASE PolicyUpdated
    <3>1. limited /\ limited' = FALSE
      BY <2>6 DEF PolicyUpdated
    <3> QED
      BY <1>0, <3>1
  <2>7. CASE UserRemove \/ \E c \in Content : UserWrite(c)
    BY <1>0, <2>7 DEF UserRemove, UserWrite
  <2>8. CASE Restart
    BY <1>0, <2>8 DEF Restart
  <2> QED
    BY <2>1, <2>2, <2>3, <2>4, <2>5, <2>6, <2>7, <2>8 DEF Recorder
<1>2. push.pc = "idle" /\ ~Before
  BY <1>1 DEF FileInv, Calm, Quiet
<1>3. Calm'
  BY <1>0, <1>2 DEF Calm, Before
<1>4. Heard'
  BY <1>0, <1>1 DEF Heard
<1>5. Sound(row)' <=> Sound(row)
  BY <1>0 DEF Sound, IsDirty, Out
<1>6. pull.pc \notin {"vault", "store"} => LocalIs(row)'
  BY <1>0, <1>1, <1>2 DEF LocalIs, Before
<1>7. Known'
  BY <1>0, <1>5, <1>6 DEF FileInv, Known, ReleasedTombstone
<1>8. Sent'
  BY <1>0 DEF FileInv, Sent, Working
<1>9. Fetched'
  BY <1>0, <1>2 DEF FileInv, Fetched, Before
<1> QED
  BY <1>3, <1>4, <1>7, <1>8, <1>9 DEF FileInv

\* A push: the file stands still, and what is settled is what the file holds.
LEMMA PushFile ==
    ASSUME Met = {}, EntryInv, BaseInv, FileInv, Push \/ PushFails
    PROVE  FileInv'
<1> USE DEF device, remote
<1>0. /\ push \in PushRecord /\ row \in Row /\ row.pending \in Mutation
      /\ push.mut \in Mutation /\ nextId \in Nat /\ nextId > 0
      /\ push.bytes \in File /\ push.base \in Nat /\ push.bytes \in File \cup {Unknown}
      /\ row.local \in File \cup {Unknown} /\ disk \in File
      /\ NoFile \notin Content /\ Unknown \notin Content /\ NoFile # Unknown
      /\ NoMutation \in Mutation /\ NoMutation.id = 0
  BY Numbers, IdleTypes, EntrySyncAssumption DEF EntryInv, Shape, PushRecord, Ids, Row
<1>1. /\ pull.pc = "idle" /\ Sound(row)
      /\ UNCHANGED <<pull, rec, disk, event, up, copies>>
  BY DEF EntryInv, Turns, DrainIdle, FileInv, Known, ReleasedTombstone,
         Push, PushFails, PushStart, PushTake, PushRead, PushReadMissing, PushRequeue,
         PushUpload, PushBlock, PushCommit, PushRejected, PushAccepted, PushPlan,
         PushApply, PushApplyRetry, PushApplyGivesUp, PushFinish, PushAborts
<1>2. published \subseteq published'
  BY DEF Push, PushFails, PushStart, PushTake, PushRead, PushReadMissing, PushRequeue,
         PushUpload, PushBlock, PushCommit, PushRejected, PushAccepted, PushPlan,
         PushApply, PushApplyRetry, PushApplyGivesUp, PushFinish, PushAborts
<1>3. Quiet /\ LocalIs(row)
  <2>1. Quiet
    <3>1. CASE PushStart
      BY <3>1, Unmet DEF PushStart, LocalQuiet, Quiet
    <3>2. push.pc # "idle" => Quiet
      BY DEF FileInv, Calm
    <3> QED
      BY <3>1, <3>2
      DEF Push, PushFails, PushTake, PushRead, PushReadMissing, PushRequeue,
          PushUpload, PushBlock, PushCommit, PushRejected, PushAccepted, PushPlan,
          PushApply, PushApplyRetry, PushApplyGivesUp, PushFinish
  <2> QED
    BY <1>1, <2>1 DEF FileInv, Known
<1>4. ASSUME LocalIs(row)', Sound(row)', Sent' PROVE FileInv'
  BY <1>1, <1>3, <1>4 DEF FileInv, Calm, Heard, Quiet, Known, Before, Fetched
<1>5. ASSUME UNCHANGED row, Sent' PROVE FileInv'
  BY <1>1, <1>2, <1>3, <1>4, <1>5 DEF LocalIs, Sound, Out, IsDirty
<1>6. CASE PushStart \/ PushReadMissing \/ PushApplyGivesUp \/ PushFinish \/ PushFails
  <2>1. UNCHANGED row /\ push'.pc \in {"idle", "list"}
    <3>1. CASE PushStart
      BY <3>1 DEF PushStart, PushIdle
    <3>2. CASE PushReadMissing \/ PushApplyGivesUp \/ PushFinish \/ PushFails
      BY <3>2 DEF PushReadMissing, PushApplyGivesUp, PushFinish, PushFails, PushAborts,
                  PushIdle
    <3> QED
      BY <1>6, <3>1, <3>2
  <2> QED
    BY <1>5, <2>1 DEF Sent, Working
<1>7. CASE PushTake
  <2> DEFINE pc == IF row.pending.hash = NoFile THEN "ready" ELSE "read"
  <2>1. /\ push' = [push EXCEPT !.pc = pc, !.mut = row.pending, !.bytes = NoFile]
        /\ UNCHANGED row
        /\ pc \in {"ready", "read"} /\ (pc = "ready" => row.pending.hash = NoFile)
    BY <1>7 DEF PushTake
  <2> HIDE DEF pc
  <2>2. push'.pc = pc /\ push'.mut = row.pending
    BY <1>0, <2>1 DEF PushRecord
  <2> QED
    BY <1>5, <2>1, <2>2 DEF Sent, Working
<1>8. CASE PushRead
  <2>1. /\ UNCHANGED row /\ push.pc = "read" /\ push'.mut = push.mut
        /\ \/ push'.pc = "upload" /\ push.mut.hash = disk
           \/ push'.pc = "requeue" /\ push'.bytes = disk /\ disk # NoFile
    BY <1>0, <1>8 DEF PushRead, PushRecord
  <2> QED
    BY <1>1, <1>5, <2>1 DEF Sent, Working, FileInv
<1>9. CASE PushRequeue
  <2> DEFINE m == NewMutation(push.bytes, push.base)
  <2>1. m \in Mutation /\ m.id # 0 /\ m.hash = push.bytes
    BY <1>0, MutationType DEF NewMutation
  <2>2. /\ row' = [row EXCEPT !.pending = m, !.local = push.bytes]
        /\ push.pc = "requeue" /\ push'.pc = "list"
    BY <1>0, <1>9 DEF PushRequeue, PushRecord
  <2> HIDE DEF m
  <2>3. row'.pending = m /\ row'.local = push.bytes
    BY <1>0, <2>1, <2>2 DEF Row
  <2>4. push.bytes = disk /\ disk # NoFile
    BY <2>2 DEF FileInv, Sent
  <2> QED
    BY <1>1, <1>4, <2>1, <2>2, <2>3, <2>4 DEF LocalIs, Sound, IsDirty, Sent, Working
<1>10. CASE PushBlock
  <2> DEFINE m == [push.mut EXCEPT !.blocked = TRUE]
  <2>1. /\ push.pc = "refused" /\ push'.pc = "list"
        /\ row.pending.id = push.mut.id /\ row.pending.hash = push.mut.hash
    BY <1>0, <1>10
    DEF PushBlock, PushRecord, FileInv, Sent, Working, EntryInv, Pushed
  <2>2. m \in Mutation /\ m.id = push.mut.id /\ m.hash = push.mut.hash
    BY <1>0 DEF Mutation
  <2>3. row' = [row EXCEPT !.pending = m] /\ UNCHANGED published
    BY <1>10 DEF PushBlock
  <2> HIDE DEF m
  <2>4. row'.pending = m /\ row'.local = row.local
    BY <1>0, <2>2, <2>3 DEF Row
  <2> QED
    BY <1>1, <1>3, <1>4, <2>1, <2>2, <2>3, <2>4
    DEF LocalIs, Sound, Out, IsDirty, Sent, Working
<1>11. CASE PushUpload \/ PushCommit \/ PushRejected \/ PushAccepted \/ PushPlan
            \/ PushApplyRetry
  <2>1. UNCHANGED row /\ push'.mut = push.mut /\ push'.pc # "requeue"
    BY <1>0, <1>11 DEF PushUpload, PushCommit, PushRejected, PushAccepted, PushPlan,
                       PushApplyRetry, PushRecord
  <2>2. push.pc \in {"upload", "ready", "answered", "plan", "apply"}
    BY <1>11 DEF PushUpload, PushCommit, PushRejected, PushAccepted, PushPlan,
                 PushApplyRetry
  <2> QED
    BY <1>1, <1>5, <2>1, <2>2 DEF Sent, Working, FileInv
<1>12. CASE PushApply
  <2>1. /\ push.pc \in {"plan", "apply"} /\ row' = AcceptedRow /\ push'.pc = "list"
        /\ UNCHANGED published /\ Working /\ Settling /\ InPlay(push.mut)
    BY <1>0, <1>12 DEF PushApply, PushRecord, Working, Settling, InPlay
  <2>2. /\ push.mut.hash \in published \cup {NoFile}
        /\ row.pending.id = push.mut.id /\ row.pending.hash = push.mut.hash
        /\ push.mut.hash \in {NoFile, disk}
        /\ row.pending.id # 0
    BY <1>0, <2>1 DEF EntryInv, News, Pushed, Ids, FileInv, Sent
  <2>3. /\ row'.pending = NoMutation
        /\ row'.local = IF push.mut.hash # NoFile /\ row.local = Unknown
                        THEN push.mut.hash ELSE row.local
    BY <2>1, <2>2 DEF AcceptedRow, NewerPending
  <2>4. row'.local = row.local /\ LocalIs(row)'
    BY <1>1, <1>3, <2>2, <2>3 DEF LocalIs
  <2>5. row.local \in Out \cup {Unknown}
    <3>1. CASE push.mut.hash = NoFile
      BY <1>1, <2>2, <3>1 DEF Sound, IsDirty, Out
    <3>2. CASE push.mut.hash # NoFile
      BY <1>3, <2>2, <3>2 DEF LocalIs, Out
    <3> QED
      BY <3>1, <3>2
  <2>6. Sound(row)'
    BY <1>0, <1>1, <2>1, <2>3, <2>4, <2>5 DEF Sound, IsDirty, Out
  <2> QED
    BY <1>4, <2>1, <2>4, <2>6 DEF Sent, Working
<1> QED
  BY <1>6, <1>7, <1>8, <1>9, <1>10, <1>11, <1>12 DEF Push

\* A pull: what is on disk is out, or is copied before the file is touched.
LEMMA PullFile ==
    ASSUME Met = {}, EntryInv, BaseInv, EditInv, FileInv,
           Pull \/ PullFails \/ PullVaultFails
    PROVE  FileInv'
<1> USE DEF device, remote
<1>0. /\ pull \in PullRecord /\ row \in Row /\ disk \in File /\ NoFile \notin Content
      /\ pull.old \in Row /\ pull.snap \in Row /\ pull.hash \in File
      /\ NoFile # Unknown /\ Unknown \notin Content
      /\ NoMutation \in Mutation /\ NoMutation.id = 0
      /\ row.local \in File \cup {Unknown}
  BY EntrySyncAssumption, IdleTypes DEF EntryInv, Shape, PullRecord, Row
<1>1. /\ push.pc = "idle" /\ rec.pc = "idle"
      /\ push'.pc = "idle" /\ rec'.pc = "idle"
      /\ UNCHANGED <<up, published>>
  <2>1. CASE PullFetch
    BY <2>1, Unmet DEF PullFetch, DrainIdle, LocalQuiet
  <2>2. CASE pull.pc # "idle" /\ UNCHANGED <<push, rec, up, published>>
    BY <2>2 DEF EntryInv, Turns, BaseInv, DrainIdle
  <2> QED
    BY <2>1, <2>2
    DEF Pull, PullPlan, PullPrepare, PullInspect, PullBegin, PullCopy, PullVault,
        PullStore, PullCheckpoint, PullFails, PullVaultFails
<1>2. /\ copies \subseteq copies' /\ Out \subseteq Out'
  BY <1>1 DEF Out, Pull, PullFetch, PullPlan, PullPrepare, PullInspect, PullBegin,
              PullCopy, PullVault, PullStore, PullCheckpoint, PullFails, PullVaultFails
<1>3. Pulling => pull.hash \in Out
  BY DEF EntryInv, Pulled, Out
\* Push and recorder rest; the row and the pull remain to be shown right.
<1>4. ASSUME Before' => Quiet', Known', Fetched' PROVE FileInv'
  BY <1>1, <1>4 DEF FileInv, Calm, Heard, Sent, Working
<1>5. Before => Quiet
  BY DEF FileInv, Calm
\* What a row says that a pull is not applying.
<1>6. ASSUME Quiet, pull.pc \notin {"vault", "store"}
      PROVE  LocalIs(row) /\ Sound(row)
  BY <1>6 DEF FileInv, Known, ReleasedTombstone
<1>7. ASSUME UNCHANGED <<row, disk, event>>, pull'.pc \notin {"vault", "store"},
             pull.pc \notin {"vault", "store"}
      PROVE  Known' /\ (Quiet => Quiet')
  BY <1>1, <1>2, <1>7
  DEF FileInv, Known, Quiet, LocalIs, Sound, IsDirty, ReleasedTombstone
\* Releasing and clearing keep what the row says the file holds, unless the path
\* of a tombstone is released.
<1>8. ASSUME pull.hash # NoFile, row' = PathReleased(ConflictCleared)
      PROVE  /\ row'.local = row.local
             /\ row'.pending = row.pending \/ row'.pending = NoMutation
  BY <1>0, <1>8 DEF PathReleased, ConflictCleared, Row
\* The vault is next.
<1>9. ASSUME Before, pull.pc \in {"begin", "copy"}, pull'.pc = "vault",
             row' = PathReleased(ConflictCleared), UNCHANGED <<disk, event>>,
             pull'.hash = pull.hash, pull'.skip = pull.skip, pull'.old = pull.old,
             LocalIs(pull'.snap), Sound(pull'.snap), disk \in Out'
      PROVE  FileInv'
  <2>1. Quiet /\ LocalIs(row) /\ Sound(row) /\ Quiet'
    BY <1>1, <1>5, <1>6, <1>9 DEF Quiet
  <2>2. Known'
    <3>1. SUFFICES ASSUME pull.hash # NoFile PROVE Sound(row)'
      BY <1>9 DEF Known, ReleasedTombstone
    <3>2. row'.local \in {disk, Unknown}
      BY <1>8, <1>9, <2>1, <3>1 DEF LocalIs
    <3>3. row'.local = row.local
          /\ (row'.pending = row.pending \/ row'.pending = NoMutation)
      BY <1>8, <1>9, <3>1
    <3> QED
      BY <1>0, <1>9, <2>1, <3>2, <3>3 DEF Sound, IsDirty
  <2>3. LocalIs(pull.snap)' /\ Sound(pull.snap)'
    BY <1>2, <1>9 DEF LocalIs, Sound, IsDirty
  <2>4. Fetched'
    BY <1>9, <2>3 DEF FileInv, Fetched, Before
  <2> QED
    BY <1>4, <2>1, <2>2, <2>4
<1>10. CASE PullFetch
  <2>1. /\ up /\ LocalQuiet /\ pull.pc = "idle" /\ UNCHANGED <<row, disk, event>>
        /\ pull'.pc \in {"planned", "checkpoint"}
    BY <1>10, Unmet DEF PullFetch, DrainIdle, PullIdle
  <2>2. Fetched'
    BY <2>1 DEF Fetched, Before
  <2> QED
    BY <1>4, <1>7, <2>1, <2>2 DEF Quiet, LocalQuiet
<1>11. CASE PullCheckpoint \/ PullFails
  <2>1. /\ pull.pc \notin {"vault", "store"} /\ pull'.pc = "idle"
        /\ UNCHANGED <<row, disk, event>>
    BY <1>11 DEF PullCheckpoint, PullFails, PullIdle
  <2> QED
    BY <1>4, <1>7, <2>1 DEF Fetched, Before
<1>12. CASE PullPlan
  <2> DEFINE b == AlreadyApplied
  <2>0. b \in BOOLEAN /\ (b => pull.hash # NoFile /\ row.local = pull.hash)
    BY DEF AlreadyApplied
  <2>1. /\ pull.pc = "planned" /\ UNCHANGED <<row, disk, event>>
        /\ \/ pull' = [pull EXCEPT !.pc = "checkpoint"]
           \/ pull' = [pull EXCEPT !.pc = "prepare", !.skip = b, !.old = row]
    BY <1>12 DEF PullPlan
  <2> HIDE DEF b
  <2>2. \/ pull'.pc = "checkpoint"
        \/ /\ pull'.pc = "prepare" /\ pull'.skip = b /\ pull'.old = row
           /\ pull'.hash = pull.hash
    BY <1>0, <2>1 DEF PullRecord
  <2>3. Quiet /\ LocalIs(row)
    BY <1>5, <1>6, <2>1 DEF Before
  <2>4. b => disk = pull.hash
    BY <1>0, <2>0, <2>3 DEF LocalIs, File
  <2>5. CombinedHash(row) = NoFile => disk = NoFile
    BY <1>0, <2>3 DEF LocalIs, CombinedHash, File
  <2>6. Fetched'
    BY <2>1, <2>2, <2>4, <2>5 DEF Fetched, Before
  <2> QED
    BY <1>4, <1>7, <2>1, <2>2, <2>3, <2>6
<1>13. CASE PullPrepare
  <2>1. /\ pull.pc = "prepare" /\ UNCHANGED <<row, disk, event>>
        /\ pull'.pc = IF IsDirty(row) THEN "inspect" ELSE "begin"
        /\ pull'.hash = pull.hash /\ pull'.skip = pull.skip /\ pull'.old = pull.old
        /\ pull'.copy = pull.copy
    BY <1>0, <1>13 DEF PullPrepare, PullRecord
  <2>2. Quiet /\ LocalIs(row) /\ Sound(row)
    BY <1>5, <1>6, <2>1 DEF Before
  <2>3. pull'.pc = "begin" => disk \in Out
    BY <1>0, <2>1, <2>2 DEF LocalIs, Sound, Out, File
  <2>4. Fetched'
    BY <1>2, <2>1, <2>3 DEF FileInv, Fetched, Before
  <2> QED
    BY <1>4, <1>7, <2>1, <2>2, <2>4
<1>14. CASE PullInspect
  <2> DEFINE b == ~AlreadyRemote
             c == IF ~AlreadyRemote /\ pull.pend.hash # NoFile THEN disk ELSE NoFile
  <2>1. /\ pull.pc = "inspect" /\ UNCHANGED <<row, disk, event>>
        /\ pull' = [pull EXCEPT !.pc = "begin", !.keep = b, !.copy = c]
    BY <1>14 DEF PullInspect
  <2>2. Quiet /\ LocalIs(row) /\ Sound(row) /\ row.pending = pull.pend
        /\ pull.hash \in Out
    BY <1>3, <1>5, <1>6, <2>1 DEF Before, EditInv, Pulling
  <2>3. pull.pend.hash = NoFile => disk \in Out
    <3> SUFFICES ASSUME pull.pend.hash = NoFile PROVE disk \in Out
      OBVIOUS
    <3>1. row.local \in Out \cup {Unknown}
      BY <2>2 DEF Sound, Out
    <3> QED
      BY <1>0, <2>2, <3>1 DEF LocalIs, Out, File
  <2>4. disk \in Out \/ c = disk
    BY <2>2, <2>3 DEF AlreadyRemote
  <2> HIDE DEF b, c
  <2>5. /\ pull'.pc = "begin" /\ pull'.copy = c /\ pull'.hash = pull.hash
        /\ pull'.skip = pull.skip /\ pull'.old = pull.old
    BY <1>0, <2>1 DEF PullRecord
  <2>6. Fetched'
    BY <1>2, <2>1, <2>4, <2>5 DEF FileInv, Fetched, Before
  <2> QED
    BY <1>4, <1>7, <2>1, <2>2, <2>5, <2>6
<1>15. CASE PullBegin
  <2>1. /\ pull.pc = "begin" /\ UNCHANGED <<disk, event>>
        /\ pull'.snap = row /\ pull'.copy = pull.copy /\ pull'.hash = pull.hash
        /\ pull'.skip = pull.skip /\ pull'.old = pull.old
        /\ \/ pull'.pc = "copy" /\ UNCHANGED row
           \/ /\ pull.copy = NoFile /\ pull'.pc = "vault"
              /\ row' = PathReleased(ConflictCleared)
    BY <1>0, <1>15 DEF PullBegin, PullRecord
  <2>2. Quiet /\ LocalIs(row) /\ Sound(row) /\ (disk \in Out \/ pull.copy = disk)
    BY <1>5, <1>6, <2>1 DEF Before, FileInv, Fetched
  <2>3. CASE pull'.pc = "copy" /\ UNCHANGED row
    <3>1. LocalIs(row)' /\ Sound(row)'
      BY <1>2, <2>1, <2>2, <2>3 DEF LocalIs, Sound, IsDirty
    <3>2. LocalIs(pull.snap)' /\ Sound(pull.snap)'
      BY <2>1, <2>3, <3>1 DEF LocalIs, Sound, IsDirty
    <3>3. Fetched'
      BY <1>2, <2>1, <2>2, <2>3, <3>2 DEF FileInv, Fetched, Before
    <3> QED
      BY <1>4, <1>7, <2>1, <2>2, <2>3, <3>3
  <2>4. CASE pull.copy = NoFile /\ pull'.pc = "vault"
             /\ row' = PathReleased(ConflictCleared)
    <3>1. disk \in Out'
      BY <1>2, <2>2, <2>4 DEF Out
    <3> QED
      BY <1>9, <2>1, <2>2, <2>4, <3>1 DEF Before
  <2> QED
    BY <2>1, <2>3, <2>4
<1>16. CASE PullCopy
  <2>1. /\ pull.pc = "copy" /\ UNCHANGED <<disk, event>>
        /\ pull'.snap = pull.snap /\ pull'.hash = pull.hash
        /\ pull'.skip = pull.skip /\ pull'.old = pull.old /\ pull'.pc = "vault"
        /\ copies' = copies \cup {pull.copy}
        /\ row' = PathReleased(ConflictCleared)
    BY <1>0, <1>16 DEF PullCopy, PullRecord
  <2>2. disk \in Out'
    BY <1>2, <2>1 DEF FileInv, Fetched, Out
  <2>3. LocalIs(pull.snap) /\ Sound(pull.snap)
    BY <2>1 DEF FileInv, Fetched
  <2>4. LocalIs(pull'.snap) /\ Sound(pull'.snap)
    BY <2>1, <2>3
  <2> QED
    BY <1>9, <2>1, <2>2, <2>4 DEF Before
<1>17. CASE PullVault
  <2>1. /\ pull.pc = "vault" /\ pull'.pc = "store" /\ pull'.hash = pull.hash
        /\ disk' = VaultAfterPull /\ UNCHANGED row
    BY <1>0, <1>17 DEF PullVault, PullRecord
  <2>2. disk' = pull.hash
    BY <2>1 DEF VaultAfterPull, FileInv, Fetched, Before
  <2>3. Known'
    BY <1>2, <2>1 DEF FileInv, Known, ReleasedTombstone, Sound, IsDirty
  <2> QED
    BY <1>4, <2>1, <2>2, <2>3 DEF Fetched, Before
<1>18. CASE PullStore
  <2>1. /\ pull.pc = "store" /\ pull'.pc = "checkpoint" /\ UNCHANGED disk
        /\ row' = UpsertedRow(pull.rev, pull.hash)
    BY <1>0, <1>18 DEF PullStore, PullRecord
  <2>2. /\ row'.local = pull.hash /\ row'.pending.id = 0
        /\ disk = pull.hash /\ pull.hash \in Out
    BY <1>0, <1>3, <2>1 DEF UpsertedRow, FileInv, Fetched, Pulling
  <2>3. Known'
    BY <1>2, <2>1, <2>2 DEF Known, LocalIs, Sound, IsDirty
  <2> QED
    BY <1>4, <2>1, <2>3 DEF Fetched, Before
<1>19. CASE PullVaultFails
  <2>1. /\ pull.pc = "vault" /\ pull'.pc = "idle" /\ UNCHANGED disk
        /\ row' = pull.snap
    BY <1>19 DEF PullVaultFails, PullIdle
  <2>2. LocalIs(pull.snap) /\ Sound(pull.snap)
    BY <2>1 DEF FileInv, Fetched
  <2>3. Known'
    BY <1>2, <2>1, <2>2 DEF Known, LocalIs, Sound, IsDirty
  <2> QED
    BY <1>4, <2>1, <2>3 DEF Fetched, Before
<1> QED
  BY <1>10, <1>11, <1>12, <1>13, <1>14, <1>15, <1>16, <1>17, <1>18, <1>19 DEF Pull

\* Other devices only ever publish more.
LEMMA OtherFile ==
    ASSUME FileInv,
           \/ Notify \/ RemoteElsewhere \/ UNCHANGED vars
           \/ \E hash \in File : RemoteChange(hash)
    PROVE  FileInv'
<1>1. /\ UNCHANGED <<row, rec, push, pull, disk, event, up, copies>>
      /\ published \subseteq published'
  BY DEF Notify, RemoteElsewhere, RemoteChange, vars, device, drain, remote
<1>2. Out \subseteq Out'
  BY <1>1 DEF Out
<1>3. /\ Sound(row) => Sound(row)'
      /\ Sound(pull.snap) => Sound(pull.snap)'
  BY <1>1, <1>2 DEF Sound, IsDirty
<1>4. /\ LocalIs(row) <=> LocalIs(row)'
      /\ LocalIs(pull.snap) <=> LocalIs(pull.snap)'
      /\ CombinedHash(pull.old) = CombinedHash(pull.old)'
  BY <1>1 DEF LocalIs, CombinedHash
<1>5. Known'
  BY <1>1, <1>3, <1>4 DEF FileInv, Known, Quiet, ReleasedTombstone
<1>6. Fetched'
  BY <1>1, <1>2, <1>3, <1>4 DEF FileInv, Fetched, Before
<1> QED
  BY <1>1, <1>5, <1>6 DEF FileInv, Calm, Heard, Sent, Working, Quiet, Before

LEMMA FileInvNext ==
    ASSUME EntryInv, beside = {} => BaseInv /\ EditInv /\ FileInv, [Next]_vars
    PROVE  beside' = {} => FileInv'
<1>1. CASE UNCHANGED vars
  BY <1>1, OtherFile DEF vars
<1>2. CASE AtRest'
  <2>1. LocalIs(row)' /\ Sound(row)'
    BY <1>2 DEF AtRest, LocalIs, Sound, IsDirty, Out
  <2> QED
    BY <1>2, <2>1 DEF AtRest, DrainIdle, LocalQuiet, FileInv, Calm, Before, Heard, Known,
                      Sent, Working, Fetched
<1>3. CASE Next /\ beside' = beside \cup Met
  <2> SUFFICES ASSUME beside' = {} PROVE FileInv'
    OBVIOUS
  <2>1. Met = {} /\ BaseInv /\ EditInv /\ FileInv
    BY <1>3
  <2>2. CASE Push \/ PushFails
    BY <2>1, <2>2, PushFile
  <2>3. CASE Pull \/ PullFails \/ PullVaultFails
    BY <2>1, <2>3, PullFile
  <2>4. CASE Notify \/ RemoteElsewhere \/ \E hash \in File : RemoteChange(hash)
    BY <2>1, <2>4, OtherFile
  <2>5. CASE Crash
    BY <2>1, <2>5, LocalFile
  <2>6. CASE \/ Recorder \/ PolicyUpdated \/ UserRemove \/ Restart
             \/ \E c \in Content : UserWrite(c)
    BY <2>1, <2>6, LocalFile, UnmetFile
  <2> QED
    BY <1>3, <2>2, <2>3, <2>4, <2>5, <2>6 DEF Next, Environment
<1> QED
  BY <1>1, <1>2, <1>3, History

\* Unless local work has run beside a push or a pull since the entry was at rest,
\* a pull that replaces or removes a file destroys nothing: its content is
\* published, or kept in a conflict copy (prepareConflictingPendingMutation
\* before applyManifestToVault), whatever fails or crashes in between.
THEOREM PullsLoseNothing == Spec => LossTakesOverlap
<1> DEFINE Based == beside = {} => BaseInv
           Looked == "pull" \notin beside => EditInv
           Filed == beside = {} => FileInv
<1>1. Init => Based /\ Looked /\ Filed
  BY BaseInvInit, EditInvInit, FileInvInit
<1>2. EntryInv /\ Based /\ [Next]_vars => Based'
  BY BaseInvNext
<1>3. EntryInv /\ Looked /\ [Next]_vars => Looked'
  BY EditsNext
<1>4. EntryInv /\ Based /\ Looked /\ Filed /\ [Next]_vars => Filed'
  BY FileInvNext
<1>5. Filed =>
        [pull.pc = "vault" /\ disk' # disk /\ beside = {}
           => disk \in published \cup copies \cup {NoFile}]_vars
  BY DEF FileInv, Fetched, Out
<1> HIDE DEF Based, Looked, Filed
<1> QED
  BY <1>1, <1>2, <1>3, <1>4, <1>5, EntryInvariance, PTL DEF Spec, LossTakesOverlap

=============================================================================
