----------------------------- MODULE ShmChatProofs -----------------------------
(***************************************************************************)
(* The directory of ShmChat, for every number of clients and every         *)
(* USER_LIMIT.                                                             *)
(*                                                                         *)
(* The directory changes when a child is forked and when one is reaped.    *)
(* The first needs that the connection's process is new (Fresh), the       *)
(* second that the reaped child has an entry, and only one (Directory).    *)
(* The types of everything else follow, with the one relation they need:   *)
(* a child never received more than its client sent.                       *)
(***************************************************************************)
EXTENDS ShmChat, SequenceTheorems, FiniteSetTheorems, TLAPS

CpcStates == {"none", "forked", "closed", "check", "enter", "wait", "send",
              "exited", "reaped"}

DirTypes ==
    /\ users \in [Entries -> Pids \cup {NoPid}]
    /\ sub_process \in [Pids -> Entries \cup {-1}]
    /\ user_count \in Entries
    /\ cpc \in [Pids -> CpcStates]
    /\ idx \in [Pids -> Entries]
    /\ backlog \in Seq(Pids)
    /\ client \in [Pids -> {"none", "backlog", "open", "aborted", "refused"}]

\* A connection in the backlog is there once and has no child yet.
Fresh ==
    /\ \A i \in 1..Len(backlog) : client[backlog[i]] = "backlog"
    /\ \A i, j \in 1..Len(backlog) : backlog[i] = backlog[j] => i = j
    /\ \A p \in Pids : client[p] \in {"none", "backlog"} => cpc[p] = "none"

Directory == DirectoryConsistent /\ NoChildForgotten /\ WithinLimit

DirInv == DirTypes /\ Fresh /\ Directory

LEMMA DirInit == Init => DirInv
<1> SUFFICES ASSUME Init PROVE DirInv
  OBVIOUS
<1> USE ShmChatAssumption DEF Init
<1>1. users \in [Entries -> Pids \cup {NoPid}] /\ user_count \in Entries
  BY DEF Entries
<1>2. sub_process \in [Pids -> Entries \cup {-1}] /\ idx \in [Pids -> Entries]
  BY DEF Entries
<1>3. /\ cpc \in [Pids -> CpcStates]
      /\ client \in [Pids -> {"none", "backlog", "open", "aborted", "refused"}]
  BY DEF CpcStates
<1>4. backlog \in Seq(Pids) /\ Len(backlog) = 0
  BY EmptySeq
<1>5. Fresh
  BY <1>4 DEF Fresh
<1>6. Recorded = {} /\ Unreaped = {}
  BY DEF Recorded, Unreaped
<1>7. Directory
  BY <1>6 DEF Directory, DirectoryConsistent, NoChildForgotten, WithinLimit
<1> QED
  BY <1>1, <1>2, <1>3, <1>4, <1>5, <1>7 DEF DirInv, DirTypes

\* A step that changes neither the directory nor the backlog, and starts and
\* reaps no child.
LEMMA DirUntouched ==
  ASSUME DirInv, UNCHANGED <<directory, idx, backlog, client>>,
         cpc' \in [Pids -> CpcStates],
         \A p \in Pids : /\ cpc'[p] = "none" <=> cpc[p] = "none"
                         /\ cpc'[p] = "reaped" <=> cpc[p] = "reaped"
  PROVE  DirInv'
<1>1. DirTypes'
  BY DEF DirInv, DirTypes, directory
<1>2. Fresh'
  BY DEF DirInv, DirTypes, Fresh
<1>3. Unreaped' = Unreaped /\ Recorded' = Recorded
  BY DEF Unreaped, Recorded, directory
<1>4. Directory'
  BY <1>3 DEF DirInv, Directory, DirectoryConsistent, NoChildForgotten,
              WithinLimit, directory
<1> QED
  BY <1>1, <1>2, <1>4 DEF DirInv

-----------------------------------------------------------------------------
(***************************************************************************)
(* The backlog.                                                            *)
(***************************************************************************)
LEMMA DirConnect ==
  ASSUME DirInv, NEW p \in Pids, Connect(p)
  PROVE  DirInv'
<1> USE DEF DirInv, DirTypes
<1>1. /\ backlog' \in Seq(Pids) /\ Len(backlog') = Len(backlog) + 1
      /\ \A i \in 1..Len(backlog) : backlog'[i] = backlog[i]
      /\ backlog'[Len(backlog) + 1] = p
      /\ Len(backlog) \in Nat
  BY AppendProperties, LenProperties DEF Connect
<1>2. UNCHANGED <<directory, idx, cpc>> /\ client[p] = "none"
      /\ client' = [client EXCEPT ![p] = "backlog"]
  BY DEF Connect, parentVars, childVars
<1>3. DirTypes'
  BY <1>1, <1>2 DEF directory
<1>4. \A i \in 1..Len(backlog) : backlog[i] \in Pids /\ backlog[i] # p
  BY <1>2, ElementOfSeq DEF Fresh
<1>5. Fresh'
  <2>1. \A i \in 1..Len(backlog') : client'[backlog'[i]] = "backlog"
    BY <1>1, <1>2, <1>4 DEF Fresh
  <2>2. \A i, j \in 1..Len(backlog') : backlog'[i] = backlog'[j] => i = j
    BY <1>1, <1>4 DEF Fresh
  <2>3. \A q \in Pids : client'[q] \in {"none", "backlog"} => cpc'[q] = "none"
    BY <1>2 DEF Fresh
  <2> QED
    BY <2>1, <2>2, <2>3 DEF Fresh
<1>6. Unreaped' = Unreaped /\ Recorded' = Recorded
  BY <1>2 DEF Unreaped, Recorded, directory
<1>7. Directory'
  BY <1>2, <1>6 DEF Directory, DirectoryConsistent, NoChildForgotten,
                    WithinLimit, directory
<1> QED
  BY <1>3, <1>5, <1>7

\* What accept leaves in the backlog.
LEMMA DirTake ==
  ASSUME DirInv, NEW p \in Pids, NEW state \in {"open", "aborted", "refused"},
         TakeConnection(p, state)
  PROVE  /\ backlog' \in Seq(Pids)
         /\ cpc[p] = "none"
         /\ client' = [client EXCEPT ![p] = state]
         /\ \A i \in 1..Len(backlog') : client'[backlog'[i]] = "backlog"
         /\ \A i, j \in 1..Len(backlog') : backlog'[i] = backlog'[j] => i = j
<1> USE DEF DirInv, DirTypes, TakeConnection
<1>1. /\ backlog' \in Seq(Pids) /\ Len(backlog') = Len(backlog) - 1
      /\ \A i \in 1..Len(backlog') : backlog'[i] = backlog[i + 1]
      /\ Len(backlog) \in Nat /\ Len(backlog) > 0
  BY HeadTailProperties, LenProperties
<1>2. p = backlog[1]
  OBVIOUS
<1>3. \A i \in 1..Len(backlog') : backlog'[i] \in Pids /\ backlog'[i] # p
  BY <1>1, <1>2, ElementOfSeq DEF Fresh
<1>4. \A i \in 1..Len(backlog') : client'[backlog'[i]] = "backlog"
  BY <1>1, <1>3 DEF Fresh
<1>5. \A i, j \in 1..Len(backlog') : backlog'[i] = backlog'[j] => i = j
  BY <1>1 DEF Fresh
<1>6. cpc[p] = "none"
  BY <1>1, <1>2 DEF Fresh
<1> QED
  BY <1>1, <1>4, <1>5, <1>6

\* A connection that is refused has no child and no entry.
LEMMA DirRefuse ==
  ASSUME DirInv, NEW p \in Pids, RefuseClient(p) \/ ForkFails(p)
  PROVE  DirInv'
<1>1. /\ TakeConnection(p, "refused")
      /\ UNCHANGED <<directory, idx, cpc>>
  BY DEF RefuseClient, ForkFails, childVars
<1>2. DirTypes'
  BY <1>1, DirTake DEF DirInv, DirTypes, directory
<1>3. Fresh'
  BY <1>1, DirTake DEF DirInv, DirTypes, Fresh
<1>4. Unreaped' = Unreaped /\ Recorded' = Recorded
  BY <1>1 DEF Unreaped, Recorded, directory
<1>5. Directory'
  BY <1>1, <1>4 DEF DirInv, Directory, DirectoryConsistent, NoChildForgotten,
                    WithinLimit, directory
<1> QED
  BY <1>2, <1>3, <1>5 DEF DirInv

-----------------------------------------------------------------------------
(***************************************************************************)
(* A child is forked: the directory grows by one entry.                    *)
(***************************************************************************)
LEMMA DirFork ==
  ASSUME DirInv, NEW p \in Pids, NEW state \in {"open", "aborted"},
         Fork(p, state)
  PROVE  DirInv'
<1> USE ShmChatAssumption DEF Entries, UserLimitReached
<1>1. TakeConnection(p, state)
  BY DEF Fork
<1>2. /\ user_count < USER_LIMIT /\ user_count \in Nat
      /\ users' = [users EXCEPT ![user_count] = p]
      /\ sub_process' = [sub_process EXCEPT ![p] = user_count]
      /\ user_count' = user_count + 1
      /\ cpc' = [cpc EXCEPT ![p] = "forked"]
      /\ idx' = [idx EXCEPT ![p] = user_count]
  BY DEF Fork, DirInv, DirTypes
<1>3. DirTypes'
  <2>1. users' \in [Entries -> Pids \cup {NoPid}] /\ user_count' \in Entries
    BY <1>2 DEF DirInv, DirTypes
  <2>2. sub_process' \in [Pids -> Entries \cup {-1}] /\ idx' \in [Pids -> Entries]
    BY <1>2 DEF DirInv, DirTypes
  <2>3. cpc' \in [Pids -> CpcStates]
    BY <1>2 DEF DirInv, DirTypes, CpcStates
  <2>4. /\ backlog' \in Seq(Pids)
        /\ client' \in [Pids -> {"none", "backlog", "open", "aborted", "refused"}]
    <3>1. backlog' \in Seq(Pids) /\ client' = [client EXCEPT ![p] = state]
      BY <1>1, DirTake
    <3> QED
      BY <3>1 DEF DirInv, DirTypes
  <2> QED
    BY <2>1, <2>2, <2>3, <2>4 DEF DirTypes
<1>4. Fresh'
  BY <1>1, <1>2, DirTake DEF DirInv, DirTypes, Fresh
<1>5. p \notin Unreaped /\ p \notin Recorded
  BY <1>1, DirTake DEF DirInv, Directory, NoChildForgotten, Unreaped
<1>6. Unreaped' = Unreaped \cup {p}
  BY <1>2 DEF Unreaped, DirInv, DirTypes
<1>7. \A i \in 0..(user_count - 1) : users'[i] = users[i] /\ users[i] # p
  BY <1>2, <1>5 DEF DirInv, DirTypes, Recorded
<1>8. users'[user_count] = p
  BY <1>2 DEF DirInv, DirTypes
<1>9. Recorded' = Recorded \cup {p}
  BY <1>2, <1>7, <1>8 DEF Recorded
<1>10. DirectoryConsistent'
  BY <1>2, <1>7, <1>8 DEF DirInv, DirTypes, Directory, DirectoryConsistent
<1>11. WithinLimit'
  BY <1>2, <1>6 DEF WithinLimit, DirInv, DirTypes, Directory, Unreaped
<1> QED
  BY <1>3, <1>4, <1>6, <1>9, <1>10, <1>11
     DEF DirInv, Directory, NoChildForgotten

-----------------------------------------------------------------------------
(***************************************************************************)
(* A child is reaped: the last entry moves into its place.                 *)
(***************************************************************************)

\* The child that waitpid returns has an entry, and sub_process finds it, so
\* the range test after the lookup never fails.
LEMMA ReapFindsEntry ==
  ASSUME DirInv, NEW p \in Unreaped
  PROVE  /\ p \in Pids
         /\ sub_process[p] \in 0..(user_count - 1)
         /\ users[sub_process[p]] = p
BY DEF DirInv, Directory, NoChildForgotten, DirectoryConsistent, Recorded,
       Unreaped

LEMMA DirReap ==
  ASSUME DirInv, NEW p \in Pids, Reap(p)
  PROVE  DirInv'
<1> DEFINE del == sub_process[p]
           last == user_count - 1
<1> USE ShmChatAssumption DEF Entries
<1>1. /\ cpc[p] = "exited" /\ cpc' = [cpc EXCEPT ![p] = "reaped"]
      /\ UNCHANGED <<backlog, client, idx>>
  BY DEF Reap, clientVars
<1>2. p \in Unreaped
  BY <1>1 DEF Unreaped
<1>3. del \in 0..last /\ users[del] = p
  BY <1>2, ReapFindsEntry
<1>4. user_count \in Nat /\ last \in 0..(USER_LIMIT - 1)
  BY <1>3 DEF DirInv, DirTypes
<1>5. ~ (del < 0 \/ del > USER_LIMIT)
  BY <1>3, <1>4
<1>6. /\ users' = [users EXCEPT ![del] = users[last]]
      /\ user_count' = last
      /\ sub_process' = [sub_process EXCEPT ![p] = -1, ![users[last]] = del]
  BY <1>5 DEF Reap
<1>7. \A i \in 0..last : /\ users[i] \in Pids
                         /\ sub_process[users[i]] = i
  BY DEF DirInv, Directory, DirectoryConsistent
<1> HIDE DEF del
<1>8. DirTypes'
  <2>1. users' \in [Entries -> Pids \cup {NoPid}] /\ user_count' \in Entries
    BY <1>3, <1>4, <1>6, <1>7 DEF DirInv, DirTypes
  <2>2. sub_process' \in [Pids -> Entries \cup {-1}] /\ idx' \in [Pids -> Entries]
    BY <1>1, <1>3, <1>4, <1>6, <1>7 DEF DirInv, DirTypes
  <2>3. cpc' \in [Pids -> CpcStates]
    BY <1>1 DEF DirInv, DirTypes, CpcStates
  <2> QED
    BY <1>1, <2>1, <2>2, <2>3 DEF DirInv, DirTypes
<1>9. Fresh'
  BY <1>1 DEF DirInv, DirTypes, Fresh
<1>10. \A i \in 0..(last - 1) :
         /\ users'[i] = IF i = del THEN users[last] ELSE users[i]
         /\ users'[i] # p
  BY <1>3, <1>4, <1>6, <1>7 DEF DirInv, DirTypes, del
<1>11. DirectoryConsistent'
  <2> SUFFICES ASSUME NEW i \in 0..(last - 1)
               PROVE  users'[i] \in Pids /\ sub_process'[users'[i]] = i
    BY <1>6 DEF DirectoryConsistent
  <2>1. CASE i = del
    BY <2>1, <1>4, <1>6, <1>7, <1>10 DEF DirInv, DirTypes
  <2>2. CASE i # del
    <3>1. users'[i] = users[i] /\ users[i] # p /\ users[i] # users[last]
      BY <2>2, <1>4, <1>7, <1>10
    <3> QED
      BY <3>1, <1>4, <1>6, <1>7 DEF DirInv, DirTypes
  <2> QED
    BY <2>1, <2>2
<1>12. Unreaped' = Unreaped \ {p}
  BY <1>1 DEF Unreaped, DirInv, DirTypes
<1>13. Recorded' = Recorded \ {p}
  <2>1. Recorded' \subseteq Recorded \ {p}
    BY <1>4, <1>6, <1>10 DEF Recorded
  <2>2. ASSUME NEW i \in 0..last, users[i] # p PROVE users[i] \in Recorded'
    <3>1. i # del
      BY <1>3, <2>2
    <3>2. CASE i = last
      <4>1. del \in 0..(last - 1) /\ users'[del] = users[i]
        BY <1>3, <1>4, <1>10, <3>1, <3>2
      <4> QED
        BY <4>1, <1>6 DEF Recorded
    <3>3. CASE i # last
      <4>1. i \in 0..(last - 1) /\ users'[i] = users[i]
        BY <1>4, <1>10, <3>1, <3>3
      <4> QED
        BY <4>1, <1>6 DEF Recorded
    <3> QED
      BY <3>2, <3>3
  <2> QED
    BY <2>1, <2>2 DEF Recorded
<1>14. WithinLimit'
  BY <1>1, <1>4, <1>6, <1>12 DEF WithinLimit, DirInv, DirTypes, Directory, Unreaped
<1> QED
  BY <1>8, <1>9, <1>11, <1>12, <1>13, <1>14
     DEF DirInv, Directory, NoChildForgotten

-----------------------------------------------------------------------------
(***************************************************************************)
(* All the other steps.                                                    *)
(***************************************************************************)
LEMMA DirParent == DirInv /\ ParentNext => DirInv'
<1> SUFFICES ASSUME DirInv, ParentNext PROVE DirInv'
  OBVIOUS
<1>1. ASSUME EpollWait \/ EventsDone \/ ReadSignals \/ SignalsDone \/ SigChld
             \/ ReapDone \/ SigTerm \/ \E p \in Pids : RelayMessage(p)
      PROVE  DirInv'
  <2>1. UNCHANGED <<directory, idx, backlog, client, cpc>>
    BY <1>1 DEF EpollWait, EventsDone, ReadSignals, SignalsDone, SigChld,
                ReapDone, SigTerm, RelayMessage, kernelVars, clientVars,
                childVars
  <2> QED
    BY <2>1, DirUntouched DEF DirInv, DirTypes
<1>2. ASSUME NEW p \in Pids, RefuseClient(p) \/ ForkFails(p) PROVE DirInv'
  BY <1>2, DirRefuse
<1>3. ASSUME NEW p \in Pids, AcceptClient(p) PROVE DirInv'
  BY <1>3, DirFork DEF AcceptClient
<1>4. ASSUME NEW p \in Pids, Reap(p) PROVE DirInv'
  BY <1>4, DirReap
<1> QED
  BY <1>1, <1>2, <1>3, <1>4 DEF ParentNext

LEMMA DirChild ==
  ASSUME DirInv, NEW p \in Pids,
         \/ ChildNext(p) \/ ChildEpollFails(p)
         \/ TermBeforeHandler(p) \/ TermInChild(p)
  PROVE  DirInv'
<1>1. UNCHANGED <<directory, idx, backlog, client>>
  BY DEF ChildNext, CloseInherited, InstallHandler, TestStop, EnterWait,
         RecvData, RecvEnd, NotifyParent, ChildExit, ChildEpollFails, Exits,
         TermBeforeHandler, TermInChild, parentVars, kernelVars, clientVars
<1>2. \/ cpc' = cpc
      \/ \E s \in CpcStates \ {"none", "reaped"} :
            /\ cpc[p] \notin {"none", "reaped"}
            /\ cpc' = [cpc EXCEPT ![p] = s]
  BY DEF ChildNext, CloseInherited, InstallHandler, TestStop, EnterWait,
         RecvData, RecvEnd, NotifyParent, ChildExit, ChildEpollFails, Exits,
         TermBeforeHandler, TermInChild, CGoto, CpcStates
<1> QED
  BY <1>1, <1>2, DirUntouched DEF DirInv, DirTypes

LEMMA DirStep == DirInv /\ [Next]_vars => DirInv'
<1> SUFFICES ASSUME DirInv, [Next]_vars PROVE DirInv'
  OBVIOUS
<1>1. ASSUME NEW p \in Pids, ClientNext(p) PROVE DirInv'
  <2>1. CASE Connect(p)
    BY <2>1, DirConnect
  <2>2. CASE ClientSend(p) \/ ClientClose(p)
    <3>1. UNCHANGED <<directory, idx, backlog, client, cpc>>
      BY <2>2 DEF ClientSend, ClientClose, parentVars, kernelVars
    <3> QED
      BY <3>1, DirUntouched DEF DirInv, DirTypes
  <2> QED
    BY <1>1, <2>1, <2>2 DEF ClientNext
<1>2. ASSUME RaiseTerm \/ EpollFails \/ UNCHANGED vars
             \/ \E s \in {"CHLD", "TERM"} : RunHandler(s)
      PROVE  DirInv'
  <2>1. UNCHANGED <<directory, idx, backlog, client, cpc>>
    BY <1>2 DEF RaiseTerm, EpollFails, RunHandler, vars, parentVars, kernelVars,
                clientVars, childVars
  <2> QED
    BY <2>1, DirUntouched DEF DirInv, DirTypes
<1> QED
  BY <1>1, <1>2, DirParent, DirChild DEF Next, SignalNext, Failures

\* The strengthened directory invariant, from which the properties follow.
THEOREM DirAlways == Spec => []DirInv
BY DirInit, DirStep, PTL DEF Spec

\* users and sub_process agree after every fork and every compaction.
THEOREM TablesAgree == Spec => []DirectoryConsistent
<1>1. DirInv => DirectoryConsistent
  BY DEF DirInv, Directory
<1> QED
  BY <1>1, DirAlways, PTL

\* The directory holds exactly the children that were not waited for.
THEOREM NoneForgotten == Spec => []NoChildForgotten
<1>1. DirInv => NoChildForgotten
  BY DEF DirInv, Directory
<1> QED
  BY <1>1, DirAlways, PTL

\* No child is given a slot outside the shared memory.
THEOREM SlotsInside == Spec => []WithinLimit
<1>1. DirInv => WithinLimit
  BY DEF DirInv, Directory
<1> QED
  BY <1>1, DirAlways, PTL

\* SIGTERM is only sent to children that were not waited for.
THEOREM KillsOwn == Spec => KillsOnlyOwnChildren
<1>1. ASSUME DirInv, [Next]_vars
      PROVE  [\A p \in term_pending' \ term_pending : p \in Unreaped]_vars
  <2>1. CASE SigTerm
    <3>1. term_pending' \subseteq term_pending \cup Recorded
      BY <2>1 DEF SigTerm
    <3> QED
      BY <1>1, <3>1 DEF DirInv, Directory, NoChildForgotten
  <2>2. CASE ~ SigTerm
    <3>1. term_pending' \subseteq term_pending
      BY <1>1, <2>2
         DEF Next, ParentNext, SignalNext, ChildNext, ClientNext, EpollWait,
             EventsDone, RefuseClient, AcceptClient, Fork, ForkFails, Reap,
             RelayMessage, ReadSignals, SignalsDone, SigChld, ReapDone,
             RunHandler, RaiseTerm, TermBeforeHandler, TermInChild,
             CloseInherited, InstallHandler, TestStop, EnterWait, RecvData,
             RecvEnd, NotifyParent, ChildExit, Exits, Failures, EpollFails,
             ChildEpollFails, Connect, ClientSend, ClientClose, vars, childVars
    <3> QED
      BY <3>1
  <2> QED
    BY <2>1, <2>2
<1> QED
  BY <1>1, DirAlways, PTL DEF Spec, KillsOnlyOwnChildren
-----------------------------------------------------------------------------
(***************************************************************************)
(* What Kept returns.                                                      *)
(***************************************************************************)

\* Every nonempty set of numbers has a least one.
LEMMA Least ==
  ASSUME NEW T \in SUBSET Nat, T # {}
  PROVE \E n \in T : \A m \in T : n <= m
  <1> DEFINE U == {0..n : n \in T}
  <1>1. \A n \in T : 0..n \in FiniteSubsetsOf(Nat)
    <2> SUFFICES ASSUME NEW n \in T PROVE 0..n \in FiniteSubsetsOf(Nat)
      OBVIOUS
    <2>1. IsFiniteSet(0..n)
      BY FS_Interval
    <2>2. 0..n \subseteq Nat
      OBVIOUS
    <2> QED BY <2>1, <2>2 DEF FiniteSubsetsOf
  <1>2. PICK x \in U : \A y \in U : ~ (<<y, x>> \in StrictSubsetOrdering(Nat))
    <2>1. U # {} /\ U \subseteq FiniteSubsetsOf(Nat)
      BY <1>1
    <2> HIDE DEF U
    <2> QED BY <2>1, FS_StrictSubsetOrderingWellFounded, WFMin
  <1>3. PICK n \in T : x = 0..n
    OBVIOUS
  <1>4. ASSUME NEW m \in T, m < n PROVE FALSE
    <2>1. 0..m \in U /\ 0..m \subseteq 0..n /\ n \in 0..n /\ n \notin 0..m
      BY <1>4
    <2>2. 0..m \in SUBSET Nat /\ 0..n \in SUBSET Nat
      OBVIOUS
    <2> HIDE DEF U
    <2> QED BY <2>1, <2>2, <1>2, <1>3 DEF StrictSubsetOrdering
  <1> QED BY <1>4

\* The recursion of Kept has a value on every prefix, and so on s.
LEMMA KeptRecursion ==
  ASSUME NEW V, NEW s \in Seq(V), NEW S
  PROVE  \E kept :
            /\ Kept(s, S) = kept[Len(s)]
            /\ \A i \in 0..Len(s) :
                 /\ kept[i] \in Seq(V \cap S)
                 /\ kept[i] = IF i = 0 THEN <<>>
                              ELSE IF s[i] \in S THEN Append(kept[i - 1], s[i])
                                                 ELSE kept[i - 1]
  <1> DEFINE n == Len(s)
             K == Seq(V \cap S)
             W(g, m) == [i \in 0..m |->
                           IF i = 0 THEN <<>>
                           ELSE IF s[i] \in S THEN Append(g[i - 1], s[i])
                                              ELSE g[i - 1]]
             Solved(m) == \E g \in [0..m -> K] : g = W(g, m)
             Bad == {m \in 0..n : ~ Solved(m)}
  <1>1. n \in Nat /\ \A i \in 1..n : s[i] \in V
    BY LenProperties, ElementOfSeq
  <1>2. <<>> \in K
    BY EmptySeq
  <1>3. ASSUME NEW x \in K, NEW i \in 1..n, s[i] \in S PROVE Append(x, s[i]) \in K
    BY <1>1, <1>3, AppendProperties
  <1> HIDE DEF n, K
  <1>4. Solved(0)
    <2>1. [i \in 0..0 |-> <<>>] \in [0..0 -> K]
      BY <1>2
    <2>2. [i \in 0..0 |-> <<>>] = W([i \in 0..0 |-> <<>>], 0)
      OBVIOUS
    <2> QED BY <2>1, <2>2
  <1>5. ASSUME NEW m \in 1..n, Solved(m - 1) PROVE Solved(m)
    <2>1. PICK g \in [0..(m - 1) -> K] : g = W(g, m - 1)
      BY <1>5
    <2> DEFINE x == IF s[m] \in S THEN Append(g[m - 1], s[m]) ELSE g[m - 1]
               h == [i \in 0..m |-> IF i = m THEN x ELSE g[i]]
    <2>2. m - 1 \in 0..(m - 1) /\ x \in K
      BY <1>1, <1>3
    <2>3. h \in [0..m -> K]
      BY <2>2, <1>1
    <2>4. ASSUME NEW i \in 0..m PROVE h[i] = W(h, m)[i]
      <3>1. CASE i = m
        <4>1. m # 0 /\ h[m - 1] = g[m - 1] /\ h[m] = x
          BY <1>1
        <4> QED BY <4>1, <3>1
      <3>2. CASE i = 0
        BY <3>2, <2>1, <1>1
      <3>3. CASE i # m /\ i # 0
        <4>1. /\ i \in 0..(m - 1) /\ i - 1 \in 0..(m - 1)
              /\ h[i] = g[i] /\ h[i - 1] = g[i - 1]
          BY <3>3, <1>1
        <4>2. g[i] = W(g, m - 1)[i]
          BY <2>1
        <4> QED BY <4>1, <4>2, <3>3
      <3> QED BY <3>1, <3>2, <3>3
    <2>5. h = W(h, m)
      BY <2>4
    <2> HIDE DEF h, W
    <2> QED BY <2>3, <2>5
  <1> HIDE DEF Solved
  <1>6. Bad = {}
    <2> SUFFICES ASSUME Bad # {} PROVE FALSE
      OBVIOUS
    <2>1. Bad \in SUBSET Nat
      BY <1>1
    <2>2. PICK m \in Bad : \A k \in Bad : m <= k
      BY <2>1, Least
    <2>3. m # 0 /\ m - 1 \in 0..n /\ m - 1 \notin Bad /\ m \in 1..n
      BY <1>1, <1>4, <2>2
    <2> QED BY <1>5, <2>2, <2>3
  <1>7. PICK g \in [0..n -> K] : g = W(g, n)
    <2>1. Solved(n)
      BY <1>1, <1>6
    <2> QED BY <2>1 DEF Solved
  <1> DEFINE kept == CHOOSE h : h = W(h, n)
  <1>8. kept = W(kept, n)
    <2> HIDE DEF W
    <2> QED BY <1>7
  <1>9. Kept(s, S) = kept[n]
    BY DEF Kept, n
  <1> HIDE DEF kept
  <1>10. \A i \in 0..n : kept[i] = IF i = 0 THEN <<>>
                                   ELSE IF s[i] \in S THEN Append(kept[i - 1], s[i])
                                                      ELSE kept[i - 1]
    BY <1>8
  <1> DEFINE Wrong == {i \in 0..n : kept[i] \notin K}
  <1>11. Wrong = {}
    <2> SUFFICES ASSUME Wrong # {} PROVE FALSE
      OBVIOUS
    <2>1. Wrong \in SUBSET Nat
      BY <1>1
    <2>2. PICK i \in Wrong : \A j \in Wrong : i <= j
      <3> HIDE DEF Wrong
      <3> QED BY <2>1, Least
    <2>3. i # 0 /\ i - 1 \in 0..n /\ i \in 1..n
      BY <1>1, <1>2, <1>10, <2>2
    <2>4. kept[i - 1] \in K
      BY <2>2, <2>3
    <2> QED BY <1>3, <1>10, <2>2, <2>3, <2>4
  <1>12. \A i \in 0..n : kept[i] \in K
    BY <1>11
  <1> QED BY <1>9, <1>10, <1>12 DEF K, n

LEMMA KeptType ==
  ASSUME NEW V, NEW s \in Seq(V), NEW S
  PROVE  Kept(s, S) \in Seq(V \cap S)
<1>1. PICK kept : /\ Kept(s, S) = kept[Len(s)]
                  /\ \A i \in 0..Len(s) : kept[i] \in Seq(V \cap S)
  BY KeptRecursion
<1>2. Len(s) \in 0..Len(s)
  BY LenProperties
<1> QED
  BY <1>1, <1>2

LEMMA ContainsAppend ==
  ASSUME NEW V, NEW s \in Seq(V), NEW x \in V, NEW y
  PROVE  Contains(Append(s, x), y) <=> Contains(s, y) \/ x = y
<1>1. /\ Len(Append(s, x)) = Len(s) + 1 /\ Len(s) \in Nat
      /\ \A i \in 1..Len(s) : Append(s, x)[i] = s[i]
      /\ Append(s, x)[Len(s) + 1] = x
  BY AppendProperties, LenProperties
<1> QED
  BY <1>1 DEF Contains

LEMMA ContainsTail ==
  ASSUME NEW V, NEW s \in Seq(V), s # <<>>, NEW y
  PROVE  Contains(s, y) <=> Head(s) = y \/ Contains(Tail(s), y)
<1>1. /\ Len(Tail(s)) = Len(s) - 1 /\ Len(s) \in Nat \ {0}
      /\ \A i \in 1..Len(Tail(s)) : Tail(s)[i] = s[i + 1]
      /\ Head(s) = s[1]
  BY HeadTailProperties, LenProperties, EmptySeq
<1>2. ASSUME NEW i \in 1..Len(s), s[i] = y, i # 1
      PROVE  i - 1 \in 1..Len(Tail(s)) /\ Tail(s)[i - 1] = y
  BY <1>1, <1>2
<1>3. Contains(s, y) => Head(s) = y \/ Contains(Tail(s), y)
  BY <1>1, <1>2 DEF Contains
<1>4. ASSUME NEW i \in 1..Len(Tail(s)), Tail(s)[i] = y PROVE Contains(s, y)
  BY <1>1, <1>4 DEF Contains
<1>5. Head(s) = y => Contains(s, y)
  BY <1>1 DEF Contains
<1> QED
  BY <1>3, <1>4, <1>5 DEF Contains

\* Kept drops what is not in S, and nothing else.
LEMMA KeptMembers ==
  ASSUME NEW V, NEW s \in Seq(V), NEW S, NEW x
  PROVE  Contains(Kept(s, S), x) <=> Contains(s, x) /\ x \in S
<1> DEFINE n == Len(s)
<1>1. n \in Nat /\ \A i \in 1..n : s[i] \in V
  BY LenProperties, ElementOfSeq
<1>2. PICK kept :
         /\ Kept(s, S) = kept[n]
         /\ \A i \in 0..n :
              /\ kept[i] \in Seq(V \cap S)
              /\ kept[i] = IF i = 0 THEN <<>>
                           ELSE IF s[i] \in S THEN Append(kept[i - 1], s[i])
                                              ELSE kept[i - 1]
  BY KeptRecursion
<1> HIDE DEF n
<1> DEFINE Right(i) == Contains(kept[i], x)
                          <=> x \in S /\ \E j \in 1..i : s[j] = x
           Wrong == {i \in 0..n : ~ Right(i)}
<1>3. Right(0)
  <2>1. kept[0] = <<>> /\ Len(<<>>) = 0
    BY <1>1, <1>2
  <2> QED
    BY <2>1 DEF Contains
<1>4. ASSUME NEW i \in 1..n, Right(i - 1) PROVE Right(i)
  <2>0. i # 0
    BY <1>1
  <2>1. /\ i \in 0..n /\ i - 1 \in 0..n /\ s[i] \in V
        /\ kept[i - 1] \in Seq(V \cap S)
    BY <1>1, <1>2
  <2>2. \A j : j \in 1..i <=> j \in 1..(i - 1) \/ j = i
    BY <1>1
  <2>3. CASE s[i] \in S
    <3>1. kept[i] = Append(kept[i - 1], s[i])
      BY <1>1, <1>2, <2>0, <2>1, <2>3, Zenon
    <3>2. Contains(kept[i], x) <=> Contains(kept[i - 1], x) \/ s[i] = x
      BY <2>1, <2>3, <3>1, ContainsAppend
    <3> QED
      BY <1>4, <2>2, <2>3, <3>2
  <2>4. CASE s[i] \notin S
    <3>1. kept[i] = kept[i - 1]
      BY <1>1, <1>2, <2>0, <2>1, <2>4, Zenon
    <3> QED
      BY <1>4, <2>2, <2>4, <3>1
  <2> QED
    BY <2>3, <2>4
<1> HIDE DEF Right
<1>5. Wrong = {}
  <2> SUFFICES ASSUME Wrong # {} PROVE FALSE
    OBVIOUS
  <2>1. Wrong \in SUBSET Nat
    BY <1>1
  <2>2. PICK i \in Wrong : \A j \in Wrong : i <= j
    <3> HIDE DEF Wrong
    <3> QED BY <2>1, Least
  <2>3. i # 0 /\ i - 1 \in 0..n /\ i \in 1..n
    BY <1>1, <1>3, <2>2
  <2>4. Right(i - 1)
    BY <2>2, <2>3
  <2> QED BY <1>4, <2>2, <2>3, <2>4
<1>6. Right(n)
  BY <1>1, <1>5
<1> QED
  BY <1>2, <1>6 DEF Right, Contains, n
-----------------------------------------------------------------------------
(***************************************************************************)
(* The types of the variables that DirTypes leaves out.                    *)
(***************************************************************************)
Signals == {"CHLD", "TERM"}

ScalarTypes ==
    /\ pc \in {"wait", "events", "signals", "reap", "stopped"}
    /\ terminate \in BOOLEAN /\ stop_server \in BOOLEAN
    /\ pending \subseteq Signals /\ terms \in 0..MaxTerm
    /\ stop_child \in [Pids -> BOOLEAN]
    /\ conn_ready \in [Pids -> BOOLEAN]
    /\ term_pending \subseteq Pids
    /\ fin \in [Pids -> BOOLEAN]

QueueTypes ==
    /\ events \in Seq(Watched) /\ ready \in Seq(Watched)
    /\ signals \in Seq(Signals) /\ sigpipe \in Seq(Signals)

\* A child receives what its client sent, and no more.
DataTypes ==
    /\ sent \in [Pids -> 0..MaxData]
    /\ inbox \in [Pids -> Nat]
    /\ \A p \in Pids : inbox[p] <= sent[p]

PipeTypes ==
    /\ to_parent \in [Pids -> 0..PipeCap]
    /\ to_child \in [Pids -> Seq(Entries)]

ChatInv == DirInv /\ ScalarTypes /\ QueueTypes /\ DataTypes /\ PipeTypes

LEMMA ChatInit == Init => ChatInv
<1> SUFFICES ASSUME Init PROVE ChatInv
  OBVIOUS
<1>1. DirInv
  BY DirInit
<1>2. ScalarTypes /\ DataTypes
  <2>1. /\ pc = "wait" /\ terminate = FALSE /\ stop_server = FALSE
        /\ pending = {} /\ term_pending = {} /\ terms = 0
    BY DEF Init
  <2>2. /\ stop_child = [p \in Pids |-> FALSE] /\ fin = [p \in Pids |-> FALSE]
        /\ conn_ready = [p \in Pids |-> FALSE]
    BY DEF Init
  <2>3. sent = [p \in Pids |-> 0] /\ inbox = [p \in Pids |-> 0]
    BY DEF Init
  <2>4. ScalarTypes
    <3>1. terms \in 0..MaxTerm
      BY <2>1, ShmChatAssumption
    <3>2. /\ stop_child \in [Pids -> BOOLEAN] /\ fin \in [Pids -> BOOLEAN]
          /\ conn_ready \in [Pids -> BOOLEAN]
      BY <2>2
    <3>3. terminate \in BOOLEAN /\ stop_server \in BOOLEAN
      BY <2>1
    <3> QED
      BY <2>1, <3>1, <3>2, <3>3 DEF ScalarTypes
  <2> QED
    BY <2>3, <2>4, ShmChatAssumption DEF DataTypes
<1>3. QueueTypes
  BY EmptySeq DEF Init, QueueTypes
<1>4. PipeTypes
  BY ShmChatAssumption, EmptySeq DEF Init, PipeTypes
<1> QED
  BY <1>1, <1>2, <1>3, <1>4 DEF ChatInv

LEMMA ScalarStep == DirInv /\ ScalarTypes /\ [Next]_vars => ScalarTypes'
<1> SUFFICES ASSUME DirInv, ScalarTypes, [Next]_vars PROVE ScalarTypes'
  OBVIOUS
<1> USE ShmChatAssumption DEF ScalarTypes, Signals
<1>1. ASSUME ParentNext PROVE ScalarTypes'
  <2>1. CASE SigTerm
    <3>1. Recorded \subseteq Pids
      BY DEF DirInv, Directory, NoChildForgotten, Unreaped
    <3> QED
      BY <2>1, <3>1 DEF SigTerm, directory, kernelVars, clientVars
  <2>2. CASE ReapDone
    BY <2>2 DEF ReapDone, directory, kernelVars, clientVars, childVars
  <2>3. CASE ~ SigTerm /\ ~ ReapDone
    BY <1>1, <2>3
       DEF ParentNext, EpollWait, EventsDone, RefuseClient, AcceptClient, Fork,
           ForkFails, TakeConnection, NextEvent, NextSignal, Reap,
           RelayMessage, ReadSignals, SignalsDone, SigChld, directory,
           kernelVars, clientVars, childVars
  <2> QED
    BY <2>1, <2>2, <2>3
<1>2. ASSUME NEW p \in Pids, ChildNext(p) \/ ChildEpollFails(p) PROVE ScalarTypes'
  BY <1>2 DEF ChildNext, CloseInherited, InstallHandler, TestStop, EnterWait,
              RecvData, RecvEnd, NotifyParent, ChildExit, ChildEpollFails, Exits, CGoto, directory,
              parentVars, kernelVars, clientVars
<1>3. ASSUME SignalNext PROVE ScalarTypes'
  BY <1>3 DEF SignalNext, RunHandler, TermBeforeHandler, TermInChild,
              directory, parentVars, kernelVars, clientVars, childVars
<1>4. ASSUME RaiseTerm PROVE ScalarTypes'
  BY <1>4 DEF RaiseTerm, directory, parentVars, clientVars, childVars
<1>7. ASSUME EpollFails PROVE ScalarTypes'
  BY <1>7 DEF EpollFails, directory, kernelVars, clientVars, childVars
<1>5. ASSUME NEW p \in Pids, ClientNext(p) PROVE ScalarTypes'
  BY <1>5 DEF ClientNext, Connect, ClientSend, ClientClose, directory,
              parentVars, kernelVars, clientVars, childVars
<1>6. ASSUME UNCHANGED vars PROVE ScalarTypes'
  BY <1>6 DEF vars, parentVars, kernelVars, clientVars, childVars
<1> QED
  BY <1>1, <1>2, <1>3, <1>4, <1>5, <1>6, <1>7 DEF Next, Failures

LEMMA EdgeType ==
  ASSUME ready \in Seq(Watched), NEW fd \in Watched, Edge(fd)
  PROVE  ready' \in Seq(Watched)
BY AppendProperties DEF Edge

LEMMA QueueStep == QueueTypes /\ ScalarTypes /\ [Next]_vars => QueueTypes'
<1> SUFFICES ASSUME QueueTypes, ScalarTypes, [Next]_vars PROVE QueueTypes'
  OBVIOUS
<1> USE DEF QueueTypes
<1>1. CASE EpollWait
  <2>1. /\ events' = Kept(ready, {fd \in Watched : Readable(fd)})
        /\ ready' = <<>> /\ UNCHANGED <<signals, sigpipe>>
    BY <1>1 DEF EpollWait
  <2> DEFINE S == {fd \in Watched : Readable(fd)}
  <2>2. Kept(ready, S) \in Seq(Watched \cap S) /\ Watched \cap S = S
    <3> HIDE DEF S
    <3>1. Kept(ready, S) \in Seq(Watched \cap S)
      BY KeptType
    <3> QED BY <3>1 DEF S
  <2>3. Kept(ready, S) \in Seq(Watched)
    <3> HIDE DEF S
    <3> QED BY <2>2
  <2> QED
    BY <2>1, <2>3, EmptySeq
<1>2. ASSUME NEW p \in Pids, Reap(p) PROVE QueueTypes'
  <2>1. ASSUME NEW S PROVE Kept(ready, S) \in Seq(Watched)
    <3>1. Kept(ready, S) \in Seq(Watched \cap S)
      BY KeptType
    <3> QED BY <3>1
  <2>2. UNCHANGED <<events, signals, sigpipe>>
    BY <1>2 DEF Reap
  <2>3. ready' = ready \/ \E S : ready' = Kept(ready, S)
    BY <1>2 DEF Reap
  <2> QED
    BY <2>1, <2>2, <2>3
<1>3. ASSUME NEW fd, NextEvent(fd) PROVE events' \in Seq(Watched)
  BY <1>3, HeadTailProperties DEF NextEvent
<1>4. ASSUME NEW p \in Pids,
             RefuseClient(p) \/ AcceptClient(p) \/ ForkFails(p) \/ RelayMessage(p)
      PROVE  QueueTypes'
  <2>1. UNCHANGED <<ready, signals, sigpipe>>
    BY <1>4 DEF RefuseClient, AcceptClient, Fork, ForkFails, RelayMessage,
                kernelVars
  <2>2. NextEvent(listenfd) \/ NextEvent(p)
    BY <1>4 DEF RefuseClient, AcceptClient, Fork, ForkFails, RelayMessage
  <2> QED
    BY <1>3, <2>1, <2>2
<1>5. CASE ReadSignals
  BY <1>3, <1>5, EmptySeq DEF ReadSignals
<1>6. ASSUME NEW s, NextSignal(s) PROVE signals' \in Seq(Signals)
  BY <1>6, HeadTailProperties DEF NextSignal
<1>7. CASE SigChld \/ SigTerm
  BY <1>6, <1>7 DEF SigChld, SigTerm, kernelVars
<1>8. CASE \/ EventsDone \/ SignalsDone \/ ReapDone \/ RaiseTerm \/ EpollFails
            \/ UNCHANGED vars
  BY <1>8 DEF EventsDone, SignalsDone, ReapDone, RaiseTerm, EpollFails, vars,
              parentVars, kernelVars
<1>9. ASSUME NEW s \in Signals, RunHandler(s) PROVE QueueTypes'
  <2>1. sigpipe' \in Seq(Signals)
    BY <1>9, AppendProperties DEF RunHandler
  <2>2. ready' \in Seq(Watched) /\ UNCHANGED <<events, signals>>
    BY <1>9, EdgeType DEF RunHandler, Watched, parentVars
  <2> QED
    BY <2>1, <2>2
<1>10. ASSUME NEW p \in Pids, TermBeforeHandler(p) PROVE QueueTypes'
  <2>1. UNCHANGED <<events, signals>>
    BY <1>10 DEF TermBeforeHandler, parentVars
  <2>2. CASE sigpipe' = Append(sigpipe, "TERM") /\ Edge(sig_pipefd)
    BY <2>1, <2>2, EdgeType, AppendProperties DEF Signals, Watched
  <2>3. CASE UNCHANGED <<sigpipe, ready>>
    BY <2>1, <2>3
  <2> QED
    BY <1>10, <2>2, <2>3 DEF TermBeforeHandler
<1>11. ASSUME NEW p \in Pids,
              NotifyParent(p) \/ ChildExit(p) \/ ChildEpollFails(p)
       PROVE  QueueTypes'
  <2>1. UNCHANGED <<events, signals, sigpipe>>
    BY <1>11 DEF NotifyParent, ChildExit, ChildEpollFails, Exits, parentVars
  <2>2. ready' = ready \/ Edge(p)
    BY <1>11 DEF NotifyParent, ChildExit, ChildEpollFails, Exits
  <2> QED
    BY <2>1, <2>2, EdgeType DEF Watched
<1>12. ASSUME NEW p \in Pids,
              \/ CloseInherited(p) \/ InstallHandler(p) \/ TestStop(p)
              \/ EnterWait(p) \/ RecvData(p) \/ RecvEnd(p) \/ TermInChild(p)
              \/ ClientSend(p) \/ ClientClose(p)
       PROVE  QueueTypes'
  BY <1>12 DEF CloseInherited, InstallHandler, TestStop, EnterWait, RecvData,
               RecvEnd, TermInChild, ClientSend, ClientClose, parentVars,
               kernelVars
<1>13. ASSUME NEW p \in Pids, Connect(p) PROVE QueueTypes'
  BY <1>13, EdgeType DEF Connect, Watched, parentVars
<1> QED
  BY <1>1, <1>2, <1>4, <1>5, <1>7, <1>8, <1>9, <1>10, <1>11, <1>12, <1>13
     DEF Next, ParentNext, SignalNext, ChildNext, ClientNext, Failures, Signals

LEMMA DataStep == DataTypes /\ [Next]_vars => DataTypes'
<1> SUFFICES ASSUME DataTypes, [Next]_vars PROVE DataTypes'
  OBVIOUS
<1> USE ShmChatAssumption DEF DataTypes
<1>1. ASSUME NEW p \in Pids, ClientSend(p) PROVE DataTypes'
  BY <1>1 DEF ClientSend
<1>2. ASSUME NEW p \in Pids, RecvData(p) PROVE DataTypes'
  <2>1. PICK n \in 1..inbox[p] : inbox' = [inbox EXCEPT ![p] = @ - n]
    BY <1>2 DEF RecvData
  <2> QED
    BY <1>2, <2>1 DEF RecvData
<1>3. ASSUME UNCHANGED <<sent, inbox>> PROVE DataTypes'
  BY <1>3
<1>4. \/ UNCHANGED <<sent, inbox>>
      \/ \E p \in Pids : ClientSend(p) \/ RecvData(p)
  BY DEF Next, ParentNext, SignalNext, ChildNext, ClientNext, EpollWait,
         EventsDone, RefuseClient, AcceptClient, Fork, ForkFails, Reap,
         RelayMessage, ReadSignals, SignalsDone, SigChld, ReapDone, SigTerm,
         RunHandler, RaiseTerm, TermBeforeHandler, TermInChild,
         CloseInherited, InstallHandler, TestStop, EnterWait, RecvEnd,
         NotifyParent, ChildExit, Exits, Failures, EpollFails, ChildEpollFails,
         Connect, ClientClose, vars, clientVars
<1> QED
  BY <1>1, <1>2, <1>3, <1>4

LEMMA PipeStep == DirInv /\ PipeTypes /\ [Next]_vars => PipeTypes'
<1> SUFFICES ASSUME DirInv, PipeTypes, [Next]_vars PROVE PipeTypes'
  OBVIOUS
<1> USE ShmChatAssumption DEF PipeTypes
<1>1. ASSUME NEW p \in Pids, RelayMessage(p), ~ UNCHANGED pipeVars
      PROVE  PipeTypes'
  <2>1. /\ to_parent[p] > 0
        /\ to_parent' = [to_parent EXCEPT ![p] = @ - 1]
        /\ to_child' = [q \in Pids |->
              IF q \in Recorded \ {p} /\ Len(to_child[q]) < PipeCap
                THEN Append(to_child[q], idx[p]) ELSE to_child[q]]
    BY <1>1 DEF RelayMessage
  <2>2. to_parent' \in [Pids -> 0..PipeCap]
    BY <2>1
  <2>3. idx[p] \in Entries
    BY DEF DirInv, DirTypes
  <2>4. \A q \in Pids : Append(to_child[q], idx[p]) \in Seq(Entries)
    BY <2>3, AppendProperties
  <2> QED
    BY <2>1, <2>2, <2>4
<1>2. ASSUME NEW p \in Pids, NotifyParent(p) PROVE PipeTypes'
  <2>1. to_child' = to_child
    BY <1>2 DEF NotifyParent
  <2>2. to_parent' \in [Pids -> 0..PipeCap]
    <3>1. CASE UNCHANGED to_parent
      BY <3>1
    <3>2. CASE /\ to_parent[p] < PipeCap
               /\ to_parent' = [to_parent EXCEPT ![p] = @ + 1]
      BY <3>2
    <3> QED
      BY <1>2, <3>1, <3>2 DEF NotifyParent
  <2> QED
    BY <2>1, <2>2
<1>3. ASSUME UNCHANGED pipeVars PROVE PipeTypes'
  BY <1>3 DEF pipeVars
<1>4. \/ UNCHANGED pipeVars
      \/ \E p \in Pids : RelayMessage(p) \/ NotifyParent(p)
  BY DEF Next, ParentNext, SignalNext, ChildNext, ClientNext, EpollWait,
         EventsDone, RefuseClient, AcceptClient, Fork, ForkFails, Reap,
         ReadSignals, SignalsDone, SigChld, ReapDone, SigTerm,
         RunHandler, RaiseTerm, TermBeforeHandler, TermInChild,
         CloseInherited, InstallHandler, TestStop, EnterWait, RecvData,
         RecvEnd, ChildExit, Exits, Failures, EpollFails, ChildEpollFails,
         Connect, ClientSend, ClientClose, vars
<1> QED
  BY <1>1, <1>2, <1>3, <1>4

\* The directory's invariant with the types of every other variable.
THEOREM ChatAlways == Spec => []ChatInv
<1>1. ChatInv /\ [Next]_vars => ChatInv'
  BY DirStep, ScalarStep, QueueStep, DataStep, PipeStep DEF ChatInv
<1> QED
  BY <1>1, ChatInit, PTL DEF Spec

\* Every variable has its type, whatever the clients do and whatever signals
\* arrive: no pipe holds more than its capacity, no message names a slot
\* outside the table.
THEOREM ChatTypes == Spec => []TypeOK
<1>1. ChatInv => TypeOK
  <2> SUFFICES ASSUME ChatInv PROVE TypeOK
    OBVIOUS
  <2>1. inbox \in [Pids -> 0..MaxData]
    BY ShmChatAssumption DEF ChatInv, DataTypes
  <2> QED
    BY <2>1 DEF ChatInv, DirInv, DirTypes, CpcStates, ScalarTypes, QueueTypes,
                DataTypes, PipeTypes, Signals, TypeOK
<1> QED
  BY <1>1, ChatAlways, PTL
-----------------------------------------------------------------------------
(***************************************************************************)
(* No signal is overlooked, and no child's end.                            *)
(***************************************************************************)

\* The batch of an epoll_wait, and the bytes of a recv, are used up before the
\* next.
BatchUsed ==
    /\ pc \in {"wait", "events"} => signals = <<>>
    /\ pc = "wait" => events = <<>>

\* Bytes in the signal pipe have an edge, reported or not: edge triggering
\* never leaves them behind.
PipeSeen ==
    sigpipe # <<>> /\ pc # "stopped" =>
        Contains(ready, sig_pipefd) \/ Contains(events, sig_pipefd)

\* While a child waits to be reaped, a SIGCHLD is on its way to the loop of
\* waitpid, or the loop is running.
ExitAnnounced ==
    pc # "stopped" /\ (\E p \in Pids : cpc[p] = "exited") =>
        \/ "CHLD" \in pending
        \/ Contains(sigpipe, "CHLD") \/ Contains(signals, "CHLD")
        \/ pc = "reap"

PipeHasRoom == Len(sigpipe) < SigPipeCap

LEMMA EdgeSeen ==
  ASSUME ready \in Seq(Watched), NEW fd \in Watched, Edge(fd)
  PROVE  /\ Contains(ready', fd)
         /\ \A x : Contains(ready, x) => Contains(ready', x)
<1>1. ready' = ready \/ ready' = Append(ready, fd)
  BY DEF Edge
<1>2. \A x : Contains(Append(ready, fd), x) <=> Contains(ready, x) \/ fd = x
  BY ContainsAppend
<1>3. ready' = ready => Contains(ready, fd)
  BY <1>2 DEF Edge
<1> HIDE DEF Contains
<1> QED
  BY <1>1, <1>2, <1>3

LEMMA BatchUsedStep == BatchUsed /\ [Next]_vars => BatchUsed'
<1> SUFFICES ASSUME BatchUsed, [Next]_vars PROVE BatchUsed'
  OBVIOUS
<1> USE DEF BatchUsed
<1>1. ASSUME ParentNext PROVE BatchUsed'
  BY <1>1 DEF ParentNext, EpollWait, EventsDone, RefuseClient, AcceptClient,
              Fork, ForkFails, NextEvent, NextSignal, Reap, ReapDone,
              RelayMessage, ReadSignals, SignalsDone, SigChld, SigTerm
<1>2. ASSUME EpollFails \/ UNCHANGED parentVars PROVE BatchUsed'
  BY <1>2 DEF EpollFails, parentVars
<1>3. \/ ParentNext
      \/ EpollFails
      \/ UNCHANGED parentVars
  BY DEF Next, SignalNext, ChildNext, ClientNext, RunHandler, RaiseTerm,
         TermBeforeHandler, TermInChild, CloseInherited, InstallHandler,
         TestStop, EnterWait, RecvData, RecvEnd, NotifyParent, ChildExit, Exits,
         Failures, ChildEpollFails, Connect, ClientSend, ClientClose, vars
<1> QED
  BY <1>1, <1>2, <1>3

LEMMA PipeSeenStep ==
  ChatInv /\ BatchUsed /\ PipeSeen /\ [Next]_vars => PipeSeen'
<1> SUFFICES ASSUME ChatInv, BatchUsed, PipeSeen, [Next]_vars PROVE PipeSeen'
  OBVIOUS
<1> USE ShmChatAssumption
<1>q. ready \in Seq(Watched) /\ events \in Seq(Watched)
  BY DEF ChatInv, QueueTypes
<1>1. CASE EpollWait
  <2> DEFINE S == {fd \in Watched : Readable(fd)}
  <2>1. /\ pc = "wait" /\ events' = Kept(ready, S) /\ sigpipe' = sigpipe
    BY <1>1 DEF EpollWait
  <2>2. sigpipe # <<>> => Contains(ready, sig_pipefd)
    BY <2>1 DEF PipeSeen, BatchUsed, Contains
  <2>3. sigpipe # <<>> => sig_pipefd \in S
    BY DEF Watched, Readable
  <2> HIDE DEF S
  <2>4. Contains(Kept(ready, S), sig_pipefd)
           <=> Contains(ready, sig_pipefd) /\ sig_pipefd \in S
    BY <1>q, KeptMembers
  <2> QED
    BY <2>1, <2>2, <2>3, <2>4 DEF PipeSeen
<1>2. ASSUME NEW p \in Pids, Reap(p) PROVE PipeSeen'
  <2>1. /\ cpc[p] = "exited" /\ UNCHANGED <<pc, events, sigpipe>>
    BY <1>2 DEF Reap
  <2>2. users[sub_process[p]] = p
    BY <2>1, ReapFindsEntry DEF ChatInv, Unreaped
  <2>3. ready' = ready \/ ready' = Kept(ready, Watched \ {p})
    BY <1>2, <2>2 DEF Reap
  <2>4. sig_pipefd \in Watched \ {p}
    BY DEF Watched
  <2>5. Contains(Kept(ready, Watched \ {p}), sig_pipefd)
           <=> Contains(ready, sig_pipefd) /\ sig_pipefd \in Watched \ {p}
    BY <1>q, KeptMembers
  <2> QED
    BY <2>1, <2>3, <2>4, <2>5 DEF PipeSeen
<1>3. ASSUME NEW fd \in Watched \ {sig_pipefd}, NextEvent(fd),
             UNCHANGED <<pc, ready, sigpipe>>
      PROVE  PipeSeen'
  <2>1. Contains(events, sig_pipefd)
           <=> Head(events) = sig_pipefd \/ Contains(Tail(events), sig_pipefd)
    BY <1>q, <1>3, ContainsTail DEF NextEvent
  <2>2. events' = Tail(events) /\ Head(events) # sig_pipefd
    BY <1>3 DEF NextEvent
  <2> QED
    BY <1>3, <2>1, <2>2 DEF PipeSeen
<1>4. ASSUME NEW p \in Pids,
             RefuseClient(p) \/ AcceptClient(p) \/ ForkFails(p) \/ RelayMessage(p)
      PROVE  PipeSeen'
  <2>1. UNCHANGED <<pc, ready, sigpipe>>
    BY <1>4 DEF RefuseClient, AcceptClient, Fork, ForkFails, RelayMessage,
                kernelVars
  <2>2. NextEvent(listenfd) \/ NextEvent(p)
    BY <1>4 DEF RefuseClient, AcceptClient, Fork, ForkFails, RelayMessage
  <2>3. listenfd \in Watched \ {sig_pipefd} /\ p \in Watched \ {sig_pipefd}
    BY DEF Watched
  <2> QED
    BY <1>3, <2>1, <2>2, <2>3
<1>5. CASE ReadSignals
  BY <1>5 DEF ReadSignals, PipeSeen
<1>6. CASE EventsDone \/ EpollFails
  BY <1>6 DEF EventsDone, EpollFails, PipeSeen, kernelVars
<1>7. ASSUME UNCHANGED <<events, ready, sigpipe>>, pc # "stopped"
      PROVE  PipeSeen'
  BY <1>7 DEF PipeSeen
<1>8. CASE SignalsDone \/ SigChld \/ ReapDone \/ SigTerm
  BY <1>7, <1>8 DEF SignalsDone, SigChld, ReapDone, SigTerm, NextSignal,
                    kernelVars
<1>9. ASSUME NEW fd \in Watched, Edge(fd), UNCHANGED <<pc, events>>,
             UNCHANGED sigpipe \/ fd = sig_pipefd
      PROVE  PipeSeen'
  BY <1>q, <1>9, EdgeSeen DEF PipeSeen
<1>10. ASSUME UNCHANGED <<pc, events, ready, sigpipe>> PROVE PipeSeen'
  BY <1>10 DEF PipeSeen
<1>11. ASSUME NEW s, RunHandler(s) PROVE PipeSeen'
  BY <1>9, <1>11 DEF RunHandler, Watched, parentVars
<1>12. ASSUME NEW p \in Pids, TermBeforeHandler(p) PROVE PipeSeen'
  <2>1. UNCHANGED <<pc, events>>
    BY <1>12 DEF TermBeforeHandler, parentVars
  <2>2. Edge(sig_pipefd) \/ UNCHANGED <<sigpipe, ready>>
    BY <1>12 DEF TermBeforeHandler
  <2> QED
    BY <1>9, <1>10, <2>1, <2>2 DEF Watched
<1>13. ASSUME NEW p \in Pids,
              NotifyParent(p) \/ ChildExit(p) \/ ChildEpollFails(p)
       PROVE  PipeSeen'
  <2>1. UNCHANGED <<pc, events, sigpipe>>
    BY <1>13 DEF NotifyParent, ChildExit, ChildEpollFails, Exits, parentVars
  <2>2. Edge(p) \/ UNCHANGED ready
    BY <1>13 DEF NotifyParent, ChildExit, ChildEpollFails, Exits
  <2> QED
    BY <1>9, <1>10, <2>1, <2>2 DEF Watched
<1>14. ASSUME NEW p \in Pids, Connect(p) PROVE PipeSeen'
  BY <1>9, <1>14 DEF Connect, Watched, parentVars
<1>15. ASSUME NEW p \in Pids,
              \/ CloseInherited(p) \/ InstallHandler(p) \/ TestStop(p)
              \/ EnterWait(p) \/ RecvData(p) \/ RecvEnd(p) \/ TermInChild(p)
              \/ ClientSend(p) \/ ClientClose(p)
       PROVE  PipeSeen'
  <2>1. UNCHANGED <<parentVars, kernelVars>>
    BY <1>15 DEF CloseInherited, InstallHandler, TestStop, EnterWait, RecvData,
                 RecvEnd, TermInChild, ClientSend, ClientClose
  <2> QED
    BY <1>10, <2>1 DEF parentVars, kernelVars
<1>16. CASE RaiseTerm \/ UNCHANGED vars
  BY <1>10, <1>16 DEF RaiseTerm, vars, parentVars, kernelVars
<1> QED
  BY <1>1, <1>2, <1>4, <1>5, <1>6, <1>8, <1>11, <1>12, <1>13, <1>14, <1>15,
     <1>16 DEF Next, ParentNext, SignalNext, ChildNext, ClientNext, Failures

\* A byte that a handler wrote is never stranded in the signal pipe: until the
\* server stops there is an edge for it that epoll_wait will report, or an
\* event that the loop has still to handle.
THEOREM SignalsAreSeen == Spec => [](BatchUsed /\ PipeSeen)
<1>1. Init => BatchUsed /\ PipeSeen
  BY DEF Init, BatchUsed, PipeSeen
<1>2. ChatInv /\ BatchUsed /\ PipeSeen /\ [Next]_vars => (BatchUsed /\ PipeSeen)'
  BY BatchUsedStep, PipeSeenStep
<1> QED
  BY <1>1, <1>2, ChatAlways, PTL DEF Spec
LEMMA AnnouncedStep ==
  ASSUME ChatInv, BatchUsed, PipeHasRoom, ExitAnnounced, [Next]_vars
  PROVE  ExitAnnounced'
<1> USE DEF ExitAnnounced
<1> DEFINE Exited == \E p \in Pids : cpc[p] = "exited"
<1>q. signals \in Seq(Signals) /\ sigpipe \in Seq(Signals)
  BY DEF ChatInv, QueueTypes
<1>c. cpc \in [Pids -> CpcStates]
  BY DEF ChatInv, DirInv, DirTypes
\* A step that takes no SIGCHLD anywhere and ends no child.
<1>1. ASSUME Exited' => Exited,
             "CHLD" \in pending => "CHLD" \in pending',
             Contains(sigpipe, "CHLD") => Contains(sigpipe', "CHLD"),
             Contains(signals, "CHLD") => Contains(signals', "CHLD"),
             pc \in {"reap", "stopped"} => pc' = pc
      PROVE  ExitAnnounced'
  BY <1>1
<1>2. CASE ReadSignals
  <2>1. /\ pc = "events" /\ signals' = sigpipe /\ UNCHANGED <<pending, cpc>>
    BY <1>2 DEF ReadSignals, NextEvent, childVars
  <2>2. signals = <<>>
    BY <2>1 DEF BatchUsed
  <2>3. ~ Contains(signals, "CHLD")
    BY <2>2 DEF Contains
  <2>4. Contains(sigpipe, "CHLD") => Contains(signals', "CHLD")
    BY <2>1 DEF Contains
  <2> QED
    BY <2>1, <2>3, <2>4
<1>3. CASE SigChld
  BY <1>3 DEF SigChld
<1>4. CASE SigTerm
  <2>1. /\ signals # <<>> /\ Head(signals) = "TERM" /\ signals' = Tail(signals)
        /\ UNCHANGED <<pc, pending, sigpipe, cpc>>
    BY <1>4 DEF SigTerm, NextSignal, kernelVars
  <2>2. Contains(signals, "CHLD") => Contains(signals', "CHLD")
    BY <1>q, <2>1, ContainsTail
  <2> QED
    BY <1>1, <2>1, <2>2
<1>5. CASE ReapDone
  BY <1>5 DEF ReapDone, childVars
<1>6. ASSUME NEW s \in Signals, RunHandler(s) PROVE ExitAnnounced'
  <2>1. /\ sigpipe' = Append(sigpipe, s) /\ pending' = pending \ {s}
        /\ UNCHANGED <<pc, signals, cpc>>
    BY <1>6 DEF RunHandler, PipeHasRoom, parentVars, childVars
  <2>2. \A x : Contains(sigpipe', x) <=> Contains(sigpipe, x) \/ s = x
    BY <1>q, <2>1, ContainsAppend
  <2> QED
    BY <2>1, <2>2
<1>7. ASSUME NEW p \in Pids, TermBeforeHandler(p) PROVE ExitAnnounced'
  <2>1. UNCHANGED <<pc, signals, pending, cpc>>
    BY <1>7 DEF TermBeforeHandler, parentVars
  <2>2. sigpipe' = Append(sigpipe, "TERM") \/ sigpipe' = sigpipe
    BY <1>7 DEF TermBeforeHandler
  <2>3. Contains(sigpipe, "CHLD") => Contains(Append(sigpipe, "TERM"), "CHLD")
    BY <1>q, ContainsAppend DEF Signals
  <2> QED
    BY <1>1, <2>1, <2>2, <2>3
<1>8. ASSUME NEW p \in Pids, ChildExit(p) \/ ChildEpollFails(p) PROVE ExitAnnounced'
  <2>1. UNCHANGED pc /\ (pc # "stopped" => "CHLD" \in pending')
    BY <1>8 DEF ChildExit, ChildEpollFails, Exits, parentVars
  <2> QED
    BY <2>1
<1>9. ASSUME NEW p \in Pids,
             \/ ChildNext(p) /\ ~ ChildExit(p)
             \/ TermInChild(p)
      PROVE  ExitAnnounced'
  <2>1. UNCHANGED <<pc, signals, pending, sigpipe>>
    BY <1>9 DEF ChildNext, CloseInherited, InstallHandler, TestStop, EnterWait,
                RecvData, RecvEnd, NotifyParent, TermInChild, parentVars,
                kernelVars
  <2>2. cpc' = cpc \/ \E st \in CpcStates \ {"exited"} :
                         cpc' = [cpc EXCEPT ![p] = st]
    BY <1>9 DEF ChildNext, CloseInherited, InstallHandler, TestStop, EnterWait,
                RecvData, RecvEnd, NotifyParent, TermInChild, CGoto, CpcStates
  <2>3. Exited' => Exited
    BY <1>c, <2>2
  <2> HIDE DEF Exited
  <2> QED
    BY <1>1, <2>1, <2>3
<1>10. ASSUME NEW p \in Pids, Reap(p) PROVE ExitAnnounced'
  <2>1. UNCHANGED <<pc, signals, pending, sigpipe>> /\ pc = "reap"
    BY <1>10 DEF Reap
  <2> QED
    BY <2>1
<1>11. ASSUME NEW p \in Pids, AcceptClient(p) PROVE ExitAnnounced'
  <2>1. UNCHANGED <<pc, signals, pending, sigpipe>>
        /\ cpc' = [cpc EXCEPT ![p] = "forked"]
    BY <1>11 DEF AcceptClient, Fork
  <2>2. Exited' => Exited
    BY <1>c, <2>1
  <2> HIDE DEF Exited
  <2> QED
    BY <1>1, <2>1, <2>2
<1>12. ASSUME \/ EpollWait \/ EpollFails \/ EventsDone \/ SignalsDone \/ RaiseTerm
              \/ UNCHANGED vars
              \/ \E p \in Pids : \/ RefuseClient(p) \/ ForkFails(p)
                                 \/ RelayMessage(p) \/ ClientNext(p)
       PROVE  ExitAnnounced'
  <2>1. UNCHANGED <<signals, sigpipe, cpc>>
    BY <1>12 DEF EpollWait, EpollFails, EventsDone, SignalsDone, RaiseTerm, RefuseClient,
                 ForkFails, RelayMessage, ClientNext, Connect, ClientSend,
                 ClientClose, vars, parentVars, kernelVars, childVars
  <2>2. pending \subseteq pending'
    BY <1>12 DEF EpollWait, EpollFails, EventsDone, SignalsDone, RaiseTerm, RefuseClient,
                 ForkFails, RelayMessage, ClientNext, Connect, ClientSend,
                 ClientClose, vars, kernelVars
  <2>3. pc \in {"reap", "stopped"} => pc' = pc
    BY <1>12 DEF EpollWait, EpollFails, EventsDone, SignalsDone, RaiseTerm, RefuseClient,
                 ForkFails, RelayMessage, ClientNext, Connect, ClientSend,
                 ClientClose, vars, parentVars, NextEvent
  <2> QED
    BY <1>1, <2>1, <2>2, <2>3
<1> QED
  BY <1>2, <1>3, <1>4, <1>5, <1>6, <1>7, <1>8, <1>9, <1>10, <1>11, <1>12
     DEF Next, ParentNext, SignalNext, Failures, Signals

\* SIGCHLDs merge, and none is waited for one by one.  Still, as long as the
\* signal pipe has room, a child that has exited and was not reaped has a
\* SIGCHLD that is still to be handled, wherever the handler and the loop are.
THEOREM ExitsAreAnnounced == Spec /\ []PipeHasRoom => []ExitAnnounced
<1>1. Init => ExitAnnounced
  BY DEF Init, ExitAnnounced
<1>2. /\ ChatInv /\ BatchUsed /\ PipeHasRoom /\ ExitAnnounced /\ [Next]_vars
      => ExitAnnounced'
  BY AnnouncedStep
<1> QED
  BY <1>1, <1>2, ChatAlways, SignalsAreSeen, PTL DEF Spec
=============================================================================
