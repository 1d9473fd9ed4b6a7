------------------------ MODULE ApprovalQueueProofs ------------------------
(* Proofs about the approval queue, for any number of entries, any ages,   *)
(* any cap, and any interleaving of the watcher and the command line.      *)
EXTENDS ApprovalQueue, TLAPS

Gone == {"executed", "notified", "absent"}

\* Where an approval may be read, it was given; so it was for what runs.
Backed ==
    /\ \A e \in Entries :
         "approved" \in {file[e], mine[e], theirs[e]} => e \in granted
    /\ todo \cup ran \subseteq granted

\* The file does not offer what is about to run or has run.
Spent == \A e \in (todo \cup ran) \ overwritten : file[e] \in Gone

\* Nothing that ran is about to run; only submitted entries are refused.
Single == todo \cap ran \subseteq overwritten
Known == \A e \in refused : e <= count

IInv == TypeOK /\ Backed /\ Spent /\ Single /\ Known /\ RefusalHolds /\ AtMostOnce

-----------------------------------------------------------------------------

\* Pruning rejects the pending and drops the decided; it approves nothing.
LEMMA PruneKeeps ==
    ASSUME NEW q \in Queues
    PROVE  /\ PruneOldEntries(q) \in Queues
           /\ \A e \in Entries :
                \/ PruneOldEntries(q)[e] = q[e]
                \/ q[e] \in Decided /\ PruneOldEntries(q)[e] = "absent"
                \/ q[e] = "pending" /\ PruneOldEntries(q)[e] \in {"rejected", "absent"}
<1> USE DEF Queues, Statuses, Active, Decided
<1>1. /\ RejectStale(q) \in Queues
      /\ \A e \in Entries : \/ RejectStale(q)[e] = q[e]
                            \/ q[e] = "pending" /\ RejectStale(q)[e] = "rejected"
  BY DEF RejectStale
<1> DEFINE s == RejectStale(q)
<1> HIDE DEF s
<1>2. s \in Queues
  BY <1>1 DEF s
<1>3. /\ DropOld(s) \in Queues
      /\ \A e \in Entries : \/ DropOld(s)[e] = s[e]
                            \/ s[e] \in Decided /\ DropOld(s)[e] = "absent"
  BY <1>2 DEF DropOld
<1> DEFINE d == DropOld(s)
<1> HIDE DEF d
<1>4. d \in Queues
  BY <1>3 DEF d
<1>5. /\ CapEntries(d) \in Queues
      /\ \A e \in Entries : \/ CapEntries(d)[e] = d[e]
                            \/ d[e] \in Decided /\ CapEntries(d)[e] = "absent"
  BY <1>4 DEF CapEntries
<1>6. PruneOldEntries(q) = CapEntries(d)
  BY DEF PruneOldEntries, s, d
<1> QED
  BY <1>1, <1>3, <1>5, <1>6 DEF s, d

\* Routing: the tasks it takes leave the queue's open entries, entries decided
\* before stay decided or are dropped, and nothing approved remains.
LEMMA RouteEffect ==
    ASSUME TypeOK, NEW r \in Nat, NEW n \in Nat, NEW rule, r + n <= NEntries - count
    PROVE  LET promoted == AutoApproved(Submitted(mine, r, n), rule)
               approved == GetApproved(promoted)
               notices == (count + r + 1)..(count + r + n)
               m == PruneOldEntries(MarkExecuted(promoted, approved))
           IN  /\ m \in Queues
               /\ approved \subseteq Entries /\ notices \subseteq Entries
               /\ \A e \in approved \cup notices : m[e] \in Gone /\ e <= count + r + n
               /\ \A e \in Entries : m[e] # "approved"
               /\ \A e \in Entries : e > count + r + n => m[e] = "absent"
               /\ \A e \in Entries :
                    e <= count /\ mine[e] \in Decided \cup {"absent"} =>
                        m[e] \in {mine[e], "absent"} /\ e \notin approved \cup notices
               /\ \A e \in notices : e > count
               /\ \A e \in approved :
                    mine[e] = "approved" \/ (e \in rule /\ Submitted(mine, r, n)[e] = "pending")
<1> DEFINE promoted == AutoApproved(Submitted(mine, r, n), rule)
           approved == GetApproved(promoted)
           notices == (count + r + 1)..(count + r + n)
           m == PruneOldEntries(MarkExecuted(promoted, approved))
<1> USE DEF Queues, Statuses, Active, Decided, TypeOK
<1>c. count \in Nat /\ NEntries \in Nat /\ Entries \subseteq Nat
  BY CountsAssumption DEF Entries
<1> DEFINE q == Submitted(mine, r, n)
<1>1. /\ q \in Queues
      /\ \A e \in Entries :
           /\ e <= count => q[e] = mine[e]
           /\ e \in notices => q[e] = "notified" /\ e > count /\ e <= count + r + n
           /\ e > count + r + n => q[e] = "absent"
  BY <1>c DEF Submitted
<1>d. \A e \in Entries : q[e] = "approved" => mine[e] = "approved"
  BY DEF Submitted
<1> HIDE DEF q
<1>2. /\ promoted \in Queues
      /\ \A e \in Entries :
           \/ promoted[e] = q[e]
           \/ q[e] = "pending" /\ e \in rule /\ promoted[e] = "approved"
  BY <1>1 DEF AutoApproved, q
<1> HIDE DEF promoted
<1>3. approved \subseteq Entries /\ \A e \in Entries : e \in approved <=> promoted[e] = "approved"
  BY DEF GetApproved
<1>4. notices \subseteq Entries
  BY <1>c DEF Entries
<1> HIDE DEF approved
<1> DEFINE x == MarkExecuted(promoted, approved)
<1>5. /\ x \in Queues
      /\ \A e \in Entries : x[e] = IF e \in approved THEN "executed" ELSE promoted[e]
  BY <1>2 DEF MarkExecuted
<1> HIDE DEF x
<1>6. /\ m \in Queues
      /\ \A e \in Entries : \/ m[e] = x[e]
                            \/ x[e] \in Decided /\ m[e] = "absent"
                            \/ x[e] = "pending" /\ m[e] \in {"rejected", "absent"}
  BY <1>5, PruneKeeps DEF x
<1> HIDE DEF m
<1>7. \A e \in approved \cup notices : m[e] \in Gone /\ e <= count + r + n
  <2> SUFFICES ASSUME NEW e \in approved \cup notices
               PROVE  m[e] \in Gone /\ e <= count + r + n
    OBVIOUS
  <2>1. e \in Entries
    BY <1>3, <1>4
  <2>2. CASE e \in approved
    <3>1. x[e] = "executed" /\ promoted[e] = "approved"
      BY <2>1, <2>2, <1>3, <1>5
    <3>2. q[e] # "absent"
      BY <2>1, <3>1, <1>2
    <3>3. e <= count + r + n
      BY <2>1, <3>2, <1>1, <1>c
    <3> QED
      BY <2>1, <3>1, <3>3, <1>6 DEF Gone
  <2>3. CASE e \in notices
    <3>1. q[e] = "notified" /\ e <= count + r + n
      BY <2>1, <2>3, <1>1
    <3>2. x[e] = "notified"
      BY <2>1, <3>1, <1>2, <1>3, <1>5
    <3> QED
      BY <2>1, <3>1, <3>2, <1>6 DEF Gone
  <2> QED
    BY <2>2, <2>3
<1>8. \A e \in Entries : m[e] # "approved"
  BY <1>3, <1>5, <1>6
<1>9. \A e \in Entries : e > count + r + n => m[e] = "absent"
  <2> SUFFICES ASSUME NEW e \in Entries, e > count + r + n PROVE m[e] = "absent"
    OBVIOUS
  <2>1. q[e] = "absent"
    BY <1>1
  <2>2. promoted[e] = "absent"
    BY <2>1, <1>2
  <2>3. x[e] = "absent"
    BY <2>2, <1>3, <1>5
  <2> QED
    BY <2>3, <1>6
<1>10. \A e \in Entries :
          e <= count /\ mine[e] \in Decided \cup {"absent"} =>
              m[e] \in {mine[e], "absent"} /\ e \notin approved \cup notices
  <2> SUFFICES ASSUME NEW e \in Entries, e <= count, mine[e] \in Decided \cup {"absent"}
               PROVE  m[e] \in {mine[e], "absent"} /\ e \notin approved \cup notices
    OBVIOUS
  <2>1. q[e] = mine[e]
    BY <1>1
  <2>2. promoted[e] = mine[e]
    BY <2>1, <1>2
  <2>3. e \notin approved /\ x[e] = mine[e]
    BY <2>2, <1>3, <1>5
  <2>4. e \notin notices
    BY <1>1, <1>c
  <2> QED
    BY <2>3, <2>4, <1>6
<1>11. \A e \in notices : e > count
  BY <1>1, <1>4
<1>12. \A e \in approved : mine[e] = "approved" \/ (e \in rule /\ q[e] = "pending")
  BY <1>2, <1>3, <1>d
<1> QED
  BY <1>3, <1>4, <1>6, <1>7, <1>8, <1>9, <1>10, <1>11, <1>12 DEF m, approved, promoted, q

\* At the beginning the queue is empty.
LEMMA InitIInv == Init => IInv
<1> SUFFICES ASSUME Init PROVE IInv
  OBVIOUS
<1>1. Empty \in Queues /\ \A e \in Entries : Empty[e] = "absent"
  BY DEF Empty, Queues, Statuses
<1>2. age \in [Entries -> Ages]
  BY CountsAssumption DEF Init, Ages
<1>3. 0 \in 0..NEntries
  BY CountsAssumption
<1>4. TypeOK
  BY <1>1, <1>2, <1>3 DEF Init, TypeOK
<1> QED
  BY <1>1, <1>4 DEF Init, IInv, Backed, Spent, Single, Known, RefusalHolds, AtMostOnce

\* The command line writes back a copy in which pending entries are decided.
LEMMA CommandStep == IInv /\ (Approve \/ ApproveAll \/ Reject) => IInv'
<1> SUFFICES ASSUME IInv, Approve \/ ApproveAll \/ Reject PROVE IInv'
  OBVIOUS
<1> USE DEF IInv, Queues, Statuses, Active, Decided
<1>1. PICK S \in SUBSET Entries, w \in {"approved", "rejected"} :
        /\ \A e \in S : theirs[e] = "pending"
        /\ file' = [e \in Entries |-> IF e \in S THEN w ELSE theirs[e]]
        /\ granted' = IF w = "approved" THEN granted \cup S ELSE granted
        /\ refused' = IF w = "rejected" THEN refused \cup S ELSE refused
        /\ WriteBack(file')
  <2>1. CASE Approve
    <3>1. PICK e \in Entries : /\ theirs[e] = "pending"
                               /\ WriteBack([theirs EXCEPT ![e] = "approved"])
                               /\ granted' = granted \cup {e} /\ refused' = refused
      BY <2>1 DEF Approve
    <3>2. [theirs EXCEPT ![e] = "approved"]
            = [f \in Entries |-> IF f \in {e} THEN "approved" ELSE theirs[f]]
      BY DEF TypeOK
    <3>3. file' = [theirs EXCEPT ![e] = "approved"]
      BY <3>1 DEF WriteBack
    <3> QED
      BY <3>1, <3>2, <3>3
  <2>2. CASE ApproveAll
    <3> DEFINE pending == {e \in Entries : theirs[e] = "pending"}
    <3>1. /\ WriteBack([e \in Entries |-> IF e \in pending THEN "approved" ELSE theirs[e]])
          /\ granted' = granted \cup pending /\ refused' = refused
      BY <2>2 DEF ApproveAll
    <3>2. file' = [e \in Entries |-> IF e \in pending THEN "approved" ELSE theirs[e]]
      BY <3>1 DEF WriteBack
    <3>3. pending \subseteq Entries /\ \A e \in pending : theirs[e] = "pending"
      OBVIOUS
    <3> HIDE DEF pending
    <3> QED
      BY <3>1, <3>2, <3>3
  <2>3. CASE Reject
    <3>1. PICK e \in Entries : /\ theirs[e] = "pending"
                               /\ WriteBack([theirs EXCEPT ![e] = "rejected"])
                               /\ refused' = refused \cup {e} /\ granted' = granted
      BY <2>3 DEF Reject
    <3>2. [theirs EXCEPT ![e] = "rejected"]
            = [f \in Entries |-> IF f \in {e} THEN "rejected" ELSE theirs[f]]
      BY DEF TypeOK
    <3>3. file' = [theirs EXCEPT ![e] = "rejected"]
      BY <3>1 DEF WriteBack
    <3> QED
      BY <3>1, <3>2, <3>3
  <2> QED
    BY <2>1, <2>2, <2>3
<1>2. /\ overwritten' = overwritten \cup {e \in Entries : file[e] # theirs[e]}
      /\ reading' = FALSE /\ theirs' = Empty
      /\ UNCHANGED <<age, count, pc, mine, todo, ran, twice>>
  BY <1>1 DEF WriteBack, Unseen, watcher
<1>3. Empty \in Queues /\ \A e \in Entries : Empty[e] = "absent"
  BY DEF Empty
<1>4. TypeOK'
  <2>1. file' \in Queues
    BY <1>1 DEF TypeOK
  <2>2. \A e \in Entries : e > count => file'[e] = "absent"
    BY <1>1 DEF TypeOK
  <2>3. granted' \subseteq Entries /\ refused' \subseteq Entries /\ overwritten' \subseteq Entries
    BY <1>1, <1>2 DEF TypeOK
  <2> QED
    BY <1>2, <1>3, <2>1, <2>2, <2>3 DEF TypeOK
<1>5. Backed'
  BY <1>1, <1>2, <1>3 DEF Backed, TypeOK
<1>6. Spent'
  BY <1>1, <1>2 DEF Spent, TypeOK, Gone
<1>7. Single' /\ AtMostOnce'
  BY <1>2 DEF Single, AtMostOnce
<1>8. Known'
  <2>1. \A e \in Entries : e \in Nat /\ count \in Nat
    BY CountsAssumption DEF Entries, TypeOK
  <2>2. \A e \in S : e <= count
    BY <2>1, <1>1 DEF TypeOK
  <2> QED
    BY <2>2, <1>1, <1>2 DEF Known
<1>9. RefusalHolds'
  <2> SUFFICES ASSUME NEW e \in refused', e \notin overwritten'
               PROVE  file'[e] \in {"rejected", "absent"} /\ e \notin todo \cup ran
    BY <1>2 DEF RefusalHolds
  <2>1. e \in Entries /\ e \notin overwritten /\ file[e] = theirs[e]
    BY <1>1, <1>2 DEF TypeOK
  <2>2. CASE e \in refused
    <3>1. theirs[e] \in {"rejected", "absent"} /\ e \notin todo \cup ran
      BY <2>1, <2>2 DEF RefusalHolds
    <3> QED
      BY <2>1, <3>1, <1>1
  <2>3. CASE e \notin refused
    <3>1. w = "rejected" /\ e \in S
      BY <2>3, <1>1
    <3>2. file[e] = "pending" /\ file'[e] = "rejected"
      BY <2>1, <3>1, <1>1
    <3> QED
      BY <2>1, <3>2 DEF Spent, Gone
  <2> QED
    BY <2>2, <2>3
<1> QED
  BY <1>4, <1>5, <1>6, <1>7, <1>8, <1>9

\* Routing takes from the queue only what was granted and neither ran nor was
\* refused, as far as the file still says what the watcher has read.
LEMMA RouteStep == IInv /\ Route => IInv'
<1> SUFFICES ASSUME IInv, Route PROVE IInv'
  OBVIOUS
<1> USE DEF IInv
<1>c. count \in Nat /\ NEntries \in Nat /\ Entries \subseteq Nat
  BY CountsAssumption DEF TypeOK, Entries
<1>1. PICK r \in 0..(NEntries - count), n \in 0..(NEntries - count),
           rule \in {{}, AutoEntries} :
        LET promoted == AutoApproved(Submitted(mine, r, n), rule)
            approved == GetApproved(promoted)
            notices == (count + r + 1)..(count + r + n)
        IN  /\ r + n <= NEntries - count
            /\ count' = count + r + n
            /\ mine' = PruneOldEntries(MarkExecuted(promoted, approved))
            /\ todo' = approved \cup notices
            /\ granted' = granted \cup notices
                            \cup {e \in rule : Submitted(mine, r, n)[e] = "pending"}
  BY DEF Route
<1> DEFINE promoted == AutoApproved(Submitted(mine, r, n), rule)
           approved == GetApproved(promoted)
           notices == (count + r + 1)..(count + r + n)
<1>2. /\ count' = count + r + n
      /\ todo' = approved \cup notices
      /\ granted' = granted \cup notices
                            \cup {e \in rule : Submitted(mine, r, n)[e] = "pending"}
      /\ r \in Nat /\ n \in Nat /\ r + n <= NEntries - count
      /\ mine' = PruneOldEntries(MarkExecuted(promoted, approved))
  BY <1>1, <1>c
<1>3. /\ mine' \in Queues
      /\ approved \subseteq Entries /\ notices \subseteq Entries
      /\ \A e \in approved \cup notices : mine'[e] \in Gone /\ e <= count'
      /\ \A e \in Entries : mine'[e] # "approved"
      /\ \A e \in Entries : e > count' => mine'[e] = "absent"
      /\ \A e \in Entries :
           e <= count /\ mine[e] \in Decided \cup {"absent"} =>
               mine'[e] \in {mine[e], "absent"} /\ e \notin approved \cup notices
      /\ \A e \in notices : e > count
      /\ \A e \in approved :
           mine[e] = "approved" \/ (e \in rule /\ Submitted(mine, r, n)[e] = "pending")
  BY <1>2, RouteEffect
<1> HIDE DEF promoted, approved, notices
<1>4. /\ file' = mine' /\ pc' = "dispatch" /\ pc = "route"
      /\ overwritten' = overwritten \cup {e \in Entries : file[e] # mine[e]}
      /\ UNCHANGED <<age, reading, theirs, refused, ran, twice>>
  BY DEF Route, Unseen, command
<1>5. TypeOK'
  <2>1. count' \in 0..NEntries /\ count <= count'
    BY <1>2, <1>c
  <2>2. todo' \subseteq Entries /\ granted' \subseteq Entries /\ overwritten' \subseteq Entries
    <3>1. rule \subseteq Entries
      BY AutoAssumption
    <3> QED
      BY <3>1, <1>2, <1>3, <1>4 DEF TypeOK
  <2>3. \A e \in Entries : e > count' => e > count /\ e \notin todo'
    <3> SUFFICES ASSUME NEW e \in Entries, e > count' PROVE e > count /\ e \notin todo'
      OBVIOUS
    <3>1. e \in Nat /\ count' \in Nat
      BY <2>1, <1>c
    <3> QED
      BY <3>1, <2>1, <1>2, <1>3, <1>c
  <2> QED
    BY <1>3, <1>4, <2>1, <2>2, <2>3 DEF TypeOK
<1>6. Backed'
  <2>1. approved \subseteq granted'
    BY <1>2, <1>3 DEF Backed
  <2>2. todo' \cup ran' \subseteq granted'
    BY <2>1, <1>2, <1>4 DEF Backed
  <2>3. \A e \in Entries : theirs'[e] = "approved" => e \in granted'
    BY <1>2, <1>4 DEF Backed
  <2> QED
    BY <2>2, <2>3, <1>3, <1>4 DEF Backed
\* An entry that ran, and that the watcher read as the file has it, is decided.
<1>7. \A e \in ran \ overwritten' : mine'[e] \in Gone /\ e \notin todo'
  <2> SUFFICES ASSUME NEW e \in ran, e \notin overwritten'
               PROVE  mine'[e] \in Gone /\ e \notin todo'
    OBVIOUS
  <2>1. e \in Entries /\ e <= count
    BY <1>c DEF TypeOK
  <2>2. e \notin overwritten /\ mine[e] = file[e]
    BY <2>1, <1>4
  <2>3. mine[e] \in Gone
    BY <2>2 DEF Spent
  <2> QED
    BY <2>1, <2>3, <1>2, <1>3 DEF Gone, Decided
<1>8. Spent'
  BY <1>7, <1>2, <1>3, <1>4 DEF Spent
<1>9. Single' /\ AtMostOnce'
  BY <1>7, <1>4 DEF Single, AtMostOnce
<1>10. Known'
  <2>1. \A e \in refused : e \in Nat /\ e <= count
    BY <1>c DEF Known, TypeOK
  <2> QED
    BY <2>1, <1>2, <1>4, <1>c DEF Known
<1>11. RefusalHolds'
  <2> SUFFICES ASSUME NEW e \in refused, e \notin overwritten'
               PROVE  mine'[e] \in {"rejected", "absent"} /\ e \notin todo' \cup ran
    BY <1>4 DEF RefusalHolds
  <2>1. e \in Entries /\ e <= count
    BY DEF TypeOK, Known
  <2>2. e \notin overwritten /\ mine[e] = file[e]
    BY <2>1, <1>4
  <2>3. mine[e] \in {"rejected", "absent"} /\ e \notin ran
    BY <2>2 DEF RefusalHolds
  <2> QED
    BY <2>1, <2>3, <1>2, <1>3 DEF Decided
<1> QED
  BY <1>5, <1>6, <1>8, <1>9, <1>10, <1>11

\* A save of an old copy disturbs only what it overwrites.
LEMMA SaveStep == IInv /\ Save => IInv'
<1> SUFFICES ASSUME IInv, Save PROVE IInv'
  OBVIOUS
<1> USE DEF IInv
<1>1. /\ file' = mine
      /\ overwritten' = overwritten \cup {e \in Entries : file[e] # mine[e]}
      /\ UNCHANGED <<age, count, pc, mine, todo, reading, theirs, granted, refused, ran, twice>>
  BY DEF Save, Unseen, watcher, command
<1>2. TypeOK'
  BY <1>1 DEF TypeOK
<1>3. Backed' /\ Known' /\ Single' /\ AtMostOnce'
  BY <1>1 DEF Backed, Known, Single, AtMostOnce
<1>4. Spent'
  BY <1>1 DEF Spent, TypeOK
<1>5. RefusalHolds'
  BY <1>1 DEF RefusalHolds, TypeOK
<1> QED
  BY <1>2, <1>3, <1>4, <1>5

\* Running takes an entry from the tasks of the cycle.
LEMMA RunStep == IInv /\ Run => IInv'
<1> SUFFICES ASSUME IInv, Run PROVE IInv'
  OBVIOUS
<1> USE DEF IInv
<1>1. PICK e \in todo : /\ todo' = todo \ {e} /\ ran' = ran \cup {e}
                        /\ twice' = IF e \in ran THEN twice \cup {e} ELSE twice
  BY DEF Run
<1>2. UNCHANGED <<file, age, count, pc, mine, reading, theirs, granted, refused, overwritten>>
  BY DEF Run, command
<1>3. TypeOK'
  BY <1>1, <1>2 DEF TypeOK, Run
<1>4. Backed' /\ Known' /\ Spent' /\ RefusalHolds'
  BY <1>1, <1>2 DEF Backed, Known, Spent, RefusalHolds
<1>5. Single' /\ AtMostOnce'
  BY <1>1, <1>2 DEF Single, AtMostOnce
<1> QED
  BY <1>3, <1>4, <1>5

\* The other steps only copy the file, forget copies and tasks, or let time pass.
LEMMA QuietStep ==
    IInv /\ (StartCycle \/ PassOver \/ EndCycle \/ Crash \/ Read \/ Leave \/ Day) => IInv'
<1> SUFFICES ASSUME IInv,
                    StartCycle \/ PassOver \/ EndCycle \/ Crash \/ Read \/ Leave \/ Day
             PROVE  IInv'
  OBVIOUS
<1> USE DEF IInv
<1>1. Empty \in Queues /\ \A e \in Entries : Empty[e] = "absent"
  BY DEF Empty, Queues, Statuses
<1>2. /\ UNCHANGED <<file, count, granted, refused, overwritten, ran, twice>>
      /\ todo' \subseteq todo
      /\ mine' \in {mine, file, Empty} /\ theirs' \in {theirs, file, Empty}
  BY DEF StartCycle, PassOver, EndCycle, Crash, Read, Leave, Day, watcher, command, history
<1>3. age' \in [Entries -> Ages]
  <2>1. CASE Day
    <3>1. \A e \in Entries : age[e] < StaleAge + MaxAge => age[e] + 1 \in Ages
      BY CountsAssumption DEF TypeOK, Ages
    <3> QED
      BY <2>1, <3>1 DEF Day, TypeOK
  <2>2. CASE ~Day
    BY <2>2 DEF StartCycle, PassOver, EndCycle, Crash, Read, Leave, TypeOK
  <2> QED
    BY <2>1, <2>2
<1>4. /\ pc' \in {"idle", "route", "dispatch"} /\ reading' \in BOOLEAN
      /\ pc' # "dispatch" => todo' = {}
  BY DEF StartCycle, PassOver, EndCycle, Crash, Read, Leave, Day, watcher, command, TypeOK
<1>5. TypeOK'
  <2>1. mine' \in Queues /\ \A e \in Entries : e > count => mine'[e] = "absent"
    BY <1>1, <1>2 DEF TypeOK
  <2>2. theirs' \in Queues /\ \A e \in Entries : e > count => theirs'[e] = "absent"
    BY <1>1, <1>2 DEF TypeOK
  <2> QED
    BY <1>2, <1>3, <1>4, <2>1, <2>2 DEF TypeOK
<1>6. Backed'
  BY <1>1, <1>2 DEF Backed
<1>7. Spent' /\ Single' /\ Known' /\ RefusalHolds' /\ AtMostOnce'
  BY <1>2 DEF Spent, Single, Known, RefusalHolds, AtMostOnce
<1> QED
  BY <1>5, <1>6, <1>7

\* The invariant is inductive.
LEMMA Inductive == IInv /\ [Next]_vars => IInv'
<1> SUFFICES ASSUME IInv, [Next]_vars PROVE IInv'
  OBVIOUS
<1>1. CASE UNCHANGED vars
  BY <1>1 DEF vars, watcher, command, history, IInv, TypeOK, Backed, Spent, Single, Known,
              RefusalHolds, AtMostOnce
<1>2. CASE Next
  BY <1>2, CommandStep, RouteStep, SaveStep, RunStep, QuietStep DEF Next
<1> QED
  BY <1>1, <1>2

\* The types of the queue and of its two copies are kept.
THEOREM TypeCorrect == Spec => []TypeOK
<1>1. IInv => TypeOK
  BY DEF IInv
<1> QED
  BY <1>1, InitIInv, Inductive, PTL DEF Spec

\* Whatever runs was granted, even where the two writers overwrite each other.
THEOREM RunsAreGranted == Spec => []OnlyGranted
<1>1. IInv => OnlyGranted
  BY DEF IInv, Backed, OnlyGranted
<1> QED
  BY <1>1, InitIInv, Inductive, PTL DEF Spec

\* An entry nobody overwrote runs at most once, whatever crashes.
THEOREM RunsOnce == Spec => []AtMostOnce
<1>1. IInv => AtMostOnce
  BY DEF IInv
<1> QED
  BY <1>1, InitIInv, Inductive, PTL DEF Spec

\* An entry the person rejected and nobody overwrote never runs.
THEOREM RejectionStands == Spec => []RefusalHolds
<1>1. IInv => RefusalHolds
  BY DEF IInv
<1> QED
  BY <1>1, InitIInv, Inductive, PTL DEF Spec
-----------------------------------------------------------------------------
(* The queue implements EntryLife.                                         *)

\* Days pass only for entries that were submitted.
Fresh == \A e \in Entries : e > count => age[e] = 0

LEMMA FreshStep == IInv /\ Fresh /\ [Next]_vars => Fresh'
<1> SUFFICES ASSUME IInv, Fresh, [Next]_vars PROVE Fresh'
  OBVIOUS
<1>c. count \in Nat /\ NEntries \in Nat /\ Entries \subseteq Nat
  BY CountsAssumption DEF IInv, TypeOK, Entries
<1>1. CASE Day
  <2>1. /\ count' = count
        /\ \A e \in Entries : e > count => age'[e] = age[e]
    BY <1>1, <1>c DEF Day
  <2> QED
    BY <2>1 DEF Fresh
<1>2. CASE Route
  <2>1. PICK r \in 0..(NEntries - count), n \in 0..(NEntries - count) : count' = count + r + n
    BY <1>2 DEF Route
  <2>2. age' = age /\ \A e \in Entries : e > count' => e > count
    BY <1>2, <1>c, <2>1 DEF Route
  <2> QED
    BY <2>2 DEF Fresh
<1>3. CASE UNCHANGED <<count, age>>
  BY <1>3 DEF Fresh
<1> QED
  BY <1>1, <1>2, <1>3
  DEF Next, StartCycle, Save, Run, PassOver, EndCycle, Crash, Read, Approve, ApproveAll, Reject, Leave,
      WriteBack, vars

\* What routing does to open and to new entries: the approved are taken, the
\* pending taken, kept or rejected, and the new offered or taken.
LEMMA RouteMoves ==
    ASSUME TypeOK, Fresh, NEW r \in Nat, NEW n \in Nat, NEW rule, r + n <= NEntries - count
    PROVE  LET promoted == AutoApproved(Submitted(mine, r, n), rule)
               approved == GetApproved(promoted)
               notices == (count + r + 1)..(count + r + n)
               m == PruneOldEntries(MarkExecuted(promoted, approved))
           IN  \A e \in Entries :
                 /\ mine[e] = "approved" => e \in approved
                 /\ mine[e] = "pending" /\ e \notin approved => m[e] \in {"pending", "rejected", "absent"}
                 /\ e > count /\ e <= count + r + n =>
                      e \in approved \cup notices \/ m[e] = "pending"
<1> DEFINE q == Submitted(mine, r, n)
           promoted == AutoApproved(q, rule)
           approved == GetApproved(promoted)
           notices == (count + r + 1)..(count + r + n)
           x == MarkExecuted(promoted, approved)
           m == PruneOldEntries(x)
<1> USE DEF Queues, Statuses, Active, Decided, TypeOK
<1>c. count \in Nat /\ NEntries \in Nat /\ Entries \subseteq Nat
  BY CountsAssumption DEF Entries
<1> SUFFICES ASSUME NEW e \in Entries
             PROVE  /\ mine[e] = "approved" => e \in approved
                    /\ mine[e] = "pending" /\ e \notin approved => m[e] \in {"pending", "rejected", "absent"}
                    /\ e > count /\ e <= count + r + n =>
                         e \in approved \cup notices \/ m[e] = "pending"
  OBVIOUS
<1>1. /\ q \in Queues
      /\ e <= count => q[e] = mine[e]
      /\ e > count /\ e <= count + r + n => q[e] = "pending" \/ e \in notices
      /\ mine[e] # "absent" => e <= count
  BY <1>c DEF Submitted
<1> HIDE DEF q, notices
<1>2. /\ promoted \in Queues
      /\ q[e] # "pending" => promoted[e] = q[e]
      /\ q[e] = "pending" => promoted[e] \in {"pending", "approved"}
  BY <1>1 DEF AutoApproved
<1> HIDE DEF promoted
<1>3. e \in approved <=> promoted[e] = "approved"
  BY DEF GetApproved
<1> HIDE DEF approved
<1>4. x \in Queues /\ (e \notin approved => x[e] = promoted[e])
  BY <1>2 DEF MarkExecuted
<1> HIDE DEF x
<1>5. x[e] = "pending" => m[e] \in {"pending", "rejected", "absent"}
  BY <1>4, PruneKeeps
<1>6. x[e] = "pending" /\ age[e] = 0 => m[e] = "pending"
  <2> SUFFICES ASSUME x[e] = "pending", age[e] = 0 PROVE m[e] = "pending"
    OBVIOUS
  <2>1. RejectStale(x)[e] = "pending"
    BY CountsAssumption DEF RejectStale, IsStale
  <2>2. DropOld(RejectStale(x))[e] = "pending"
    BY <2>1 DEF DropOld
  <2> QED
    BY <2>2 DEF PruneOldEntries, CapEntries
<1> HIDE DEF m
<1>7. mine[e] = "approved" => e \in approved
  BY <1>1, <1>2, <1>3
<1>8. mine[e] = "pending" /\ e \notin approved => m[e] \in {"pending", "rejected", "absent"}
  BY <1>1, <1>2, <1>3, <1>4, <1>5
<1>9. e > count /\ e <= count + r + n => e \in approved \cup notices \/ m[e] = "pending"
  BY <1>1, <1>2, <1>3, <1>4, <1>6, <1>c DEF Fresh
<1> QED
  BY <1>7, <1>8, <1>9

Moved(e) == Stage'[e] # Stage[e] => <<Stage[e], Stage'[e]>> \in Life!Moves

\* Stages are a function on the entries, with the seven values.
LEMMA StageType == Stage \in [Entries -> Life!Stages]
BY DEF Stage, Life!Stages

\* The command line decides pending entries; an entry it overwrites is void.
LEMMA CommandMoves ==
    ASSUME IInv, Approve \/ ApproveAll \/ Reject, NEW e \in Entries
    PROVE  Moved(e)
<1> USE DEF IInv, Queues, Statuses, Active, Decided
<1>1. /\ UNCHANGED <<count, todo, ran>>
      /\ overwritten' = overwritten \cup {f \in Entries : file[f] # theirs[f]}
      /\ \/ file'[e] = theirs[e]
         \/ theirs[e] = "pending" /\ file'[e] \in {"approved", "rejected"}
  BY DEF Approve, ApproveAll, Reject, WriteBack, Unseen, watcher, TypeOK
<1>2. CASE e \in overwritten'
  BY <1>2, StageType DEF Moved, Stage, Life!Moves, Life!Stages
<1>3. CASE e \notin overwritten'
  <2>1. e \notin overwritten /\ file[e] = theirs[e]
    BY <1>1, <1>3
  <2>2. CASE e \in todo \cup ran
    BY <1>1, <1>3, <2>1, <2>2 DEF Moved, Stage
  <2>3. CASE e \notin todo \cup ran
    <3>1. file'[e] = file[e] \/ (file[e] = "pending" /\ file'[e] \in {"approved", "rejected"})
      BY <1>1, <2>1
    <3>2. file[e] = "pending" => Stage[e] = "waiting" /\ e <= count
      BY <2>1, <2>3, CountsAssumption DEF Stage, TypeOK, Entries
    <3> QED
      BY <1>1, <1>3, <2>1, <2>3, <3>1, <3>2, CountsAssumption
      DEF Moved, Stage, Life!Moves, TypeOK, Entries
  <2> QED
    BY <2>2, <2>3
<1> QED
  BY <1>2, <1>3

\* Routing takes what is granted, offers what is new and closes what is stale.
LEMMA RoutedMoves ==
    ASSUME IInv, IInv', Fresh, Route, NEW e \in Entries
    PROVE  Moved(e)
<1> USE DEF IInv, Queues, Statuses
<1>c. count \in Nat /\ NEntries \in Nat /\ Entries \subseteq Nat
  BY CountsAssumption DEF TypeOK, Entries
<1>1. PICK r \in 0..(NEntries - count), n \in 0..(NEntries - count),
           rule \in {{}, AutoEntries} :
        LET promoted == AutoApproved(Submitted(mine, r, n), rule)
            approved == GetApproved(promoted)
            notices == (count + r + 1)..(count + r + n)
        IN  /\ r + n <= NEntries - count
            /\ count' = count + r + n
            /\ mine' = PruneOldEntries(MarkExecuted(promoted, approved))
            /\ todo' = approved \cup notices
  BY DEF Route
<1>2. /\ file' = mine' /\ todo = {} /\ ran' = ran
      /\ overwritten' = overwritten \cup {f \in Entries : file[f] # mine[f]}
  BY DEF Route, Unseen, TypeOK
<1> DEFINE promoted == AutoApproved(Submitted(mine, r, n), rule)
           approved == GetApproved(promoted)
           notices == (count + r + 1)..(count + r + n)
<1>3. /\ r \in Nat /\ n \in Nat /\ r + n <= NEntries - count
      /\ count' = count + r + n /\ todo' = approved \cup notices
      /\ mine' = PruneOldEntries(MarkExecuted(promoted, approved))
  BY <1>1, <1>c
<1>4. /\ e <= count /\ mine[e] \in Decided \cup {"absent"} =>
           mine'[e] \in {mine[e], "absent"} /\ e \notin todo'
      /\ e > count' => mine'[e] = "absent" /\ e \notin todo'
      /\ e \in notices => e > count
  BY <1>3, <1>c, RouteEffect DEF TypeOK
<1>5. /\ mine[e] = "approved" => e \in todo'
      /\ mine[e] = "pending" /\ e \notin todo' => mine'[e] \in {"pending", "rejected", "absent"}
      /\ e > count /\ e <= count' => e \in todo' \/ mine'[e] = "pending"
  BY <1>3, RouteMoves
<1> HIDE DEF promoted, approved, notices
<1>6. e \in Nat /\ count' \in Nat /\ count <= count'
  BY <1>3, <1>c
<1>7. CASE e \in overwritten'
  BY <1>7, StageType DEF Moved, Stage, Life!Moves, Life!Stages
<1>8. CASE e \in ran \ overwritten'
  BY <1>2, <1>8 DEF Moved, Stage
<1>9. CASE e \notin ran \cup overwritten'
  <2>1. e \notin overwritten /\ file[e] = mine[e] /\ e \notin todo
    BY <1>2, <1>9
  <2>2. CASE e > count
    <3>1. file[e] = "absent" /\ Stage[e] = "unseen"
      BY <2>1, <2>2, <1>9 DEF TypeOK, Stage
    <3>2. Stage'[e] \in {"unseen", "waiting", "taken"}
      BY <2>2, <1>2, <1>4, <1>5, <1>6, <1>9 DEF Stage
    <3> QED
      BY <3>1, <3>2 DEF Moved, Life!Moves
  <2>3. CASE e <= count /\ mine[e] \in Decided \cup {"absent"}
    <3>1. Stage[e] = "over"
      BY <2>1, <2>3, <1>c, <1>6, <1>9 DEF Stage, Decided
    <3>2. Stage'[e] = "over"
      BY <2>1, <2>3, <1>c, <1>2, <1>4, <1>6, <1>9 DEF Stage, Decided
    <3> QED
      BY <3>1, <3>2 DEF Moved
  <2>4. CASE mine[e] = "approved"
    <3>1. Stage[e] = "granted" /\ Stage'[e] = "taken"
      BY <2>1, <2>4, <1>2, <1>5, <1>9 DEF Stage
    <3> QED
      BY <3>1 DEF Moved, Life!Moves
  <2>5. CASE e <= count /\ mine[e] = "pending"
    <3>1. Stage[e] = "waiting"
      BY <2>1, <2>5, <1>9 DEF Stage
    <3>2. Stage'[e] \in {"taken", "waiting", "over"}
      BY <2>5, <1>2, <1>5, <1>6, <1>c, <1>9 DEF Stage
    <3> QED
      BY <3>1, <3>2 DEF Moved, Life!Moves
  <2> QED
    BY <2>2, <2>3, <2>4, <2>5, <1>c, <1>6 DEF TypeOK, Active
<1> QED
  BY <1>7, <1>8, <1>9

\* Every step takes each entry along its life, or leaves it.
LEMMA NextMoves ==
    ASSUME IInv, IInv', Fresh, [Next]_vars, NEW e \in Entries
    PROVE  Moved(e)
<1> USE DEF IInv
<1>c. count \in Nat /\ e \in Nat
  BY CountsAssumption DEF TypeOK, Entries
<1>1. CASE Approve \/ ApproveAll \/ Reject
  BY <1>1, CommandMoves
<1>2. CASE Route
  BY <1>2, RoutedMoves
<1>3. CASE Save
  <2>1. /\ file' = mine /\ UNCHANGED <<count, todo, ran>>
        /\ overwritten' = overwritten \cup {f \in Entries : file[f] # mine[f]}
    BY <1>3 DEF Save, Unseen, watcher
  <2>2. CASE e \in overwritten'
    BY <2>2, StageType DEF Moved, Stage, Life!Moves, Life!Stages
  <2>3. CASE e \notin overwritten'
    BY <2>1, <2>3 DEF Moved, Stage
  <2> QED
    BY <2>2, <2>3
\* What leaves the tasks of the cycle has run or is lost.
<1>4. ASSUME todo' \subseteq todo, UNCHANGED <<file, count, overwritten>>,
             ran' \in {ran} \cup {ran \cup {f} : f \in todo}
      PROVE  Moved(e)
  <2>1. CASE e \in overwritten
    BY <1>4, <2>1 DEF Moved, Stage
  <2>2. CASE e \in ran \ overwritten
    <3>1. e \in ran'
      BY <1>4, <2>2
    <3> QED
      BY <1>4, <2>2, <3>1 DEF Moved, Stage
  <2>3. CASE e \in todo /\ e \notin ran \cup overwritten
    <3>1. Stage[e] = "taken"
      BY <2>3 DEF Stage
    <3>2. file[e] \in Gone /\ e <= count
      BY <1>c, <2>3 DEF Spent, TypeOK
    <3>3. Stage'[e] \in {"ran", "taken", "over"}
      BY <1>4, <1>c, <2>3, <3>2 DEF Stage, Gone
    <3> QED
      BY <3>1, <3>3 DEF Moved, Life!Moves
  <2>4. CASE e \notin todo \cup ran \cup overwritten
    <3>1. e \notin todo' \cup ran'
      BY <1>4, <2>4
    <3> QED
      BY <1>4, <2>4, <3>1 DEF Moved, Stage
  <2> QED
    BY <2>1, <2>2, <2>3, <2>4
<1>5. CASE Run
  <2>1. PICK f \in todo : todo' = todo \ {f} /\ ran' = ran \cup {f}
    BY <1>5 DEF Run
  <2>2. UNCHANGED <<file, count, overwritten>>
    BY <1>5 DEF Run
  <2> QED
    BY <1>4, <2>1, <2>2
<1>6. CASE StartCycle \/ PassOver \/ EndCycle \/ Crash \/ Read \/ Leave \/ Day \/ UNCHANGED vars
  <2>1. todo' \subseteq todo /\ UNCHANGED <<file, count, overwritten, ran>>
    BY <1>6 DEF StartCycle, PassOver, EndCycle, Crash, Read, Leave, Day, watcher, command, history, vars
  <2> QED
    BY <1>4, <2>1
<1> QED
  BY <1>1, <1>2, <1>3, <1>5, <1>6 DEF Next

(***************************************************************************)
(* For any number of entries, ages and interleavings, the queue implements *)
(* EntryLife: an entry is offered, granted, taken and run once each and in *)
(* this order, and nothing comes back unless one writer overwrote it.      *)
(***************************************************************************)
THEOREM EntriesLive == Spec => Lived
<1>1. Init => IInv /\ Fresh /\ Life!Init
  <2> SUFFICES ASSUME Init PROVE Fresh /\ Life!Init
    BY InitIInv
  <2>1. \A e \in Entries : e > 0
    BY DEF Entries
  <2> QED
    BY <2>1 DEF Init, Fresh, Life!Init, Stage, Empty
<1>2. IInv /\ Fresh /\ IInv' /\ [Next]_vars => [Life!Next]_Stage
  <2> SUFFICES ASSUME IInv, Fresh, IInv', [Next]_vars PROVE Life!Next
    OBVIOUS
  <2>1. \A e \in Entries : Moved(e)
    BY NextMoves
  <2>2. Stage' \in [Entries -> Life!Stages]
    BY DEF Stage, Life!Stages
  <2> QED
    BY <2>1, <2>2 DEF Moved, Life!Next
<1> QED
  BY <1>1, <1>2, Inductive, FreshStep, PTL DEF Spec, Lived, Life!Spec
=============================================================================
