--------------------------- MODULE ProcessProofs ----------------------------
(***************************************************************************)
(* Proofs about processes, for any number of processes and any statuses:   *)
(* what a thread uses other than p_parent exists, waitpid destroys what it *)
(* reaps, and clone, exit and waitpid keep the promises of                 *)
(* AbstractProcess.  The parent that an exiting thread signals may be gone *)
(* unless programs wait for their children before they exit (~Orphans).    *)
(***************************************************************************)
EXTENDS Process, ListProofs

\* Process ids are numbers, and None is none of them.
LEMMA PidFacts ==
  /\ None \notin Pid /\ None \notin Status /\ init \in Pid /\ init \in Nat
  /\ Pid \subseteq Nat /\ \A p \in Pid : p >= init
BY ProcessAssumption DEF Pid, init

\* The order of the ids, as far as it is needed.
LEMMA PidOrder ==
  /\ \A c \in Nat : c < c + 1
  /\ \A x, c \in Nat : /\ x < c => x < c + 1 /\ x # c
                       /\ x >= c => ~(x < c)
                       /\ x >= c /\ x # c => x >= c + 1
OBVIOUS

\* The id that process_alloc hands out was never used.
LEMMA NextPid ==
  ASSUME ProcInv, NEW c \in Pid, c = process_curpid
  PROVE  c # init /\ c \in Nat /\ c >= init /\ Unborn(c)
<1>1. c # init /\ c \in Nat /\ c >= init
  BY PidFacts, Zenon DEF ProcInv, ProcTypeOK
<1>2. ~(c < process_curpid)
  BY <1>1
<1>3. QED
  BY <1>1, <1>2, Zenon DEF ProcInv, LifeInv

\* Who has a thread that runs, other than init, is the child of a process that
\* made it earlier.
LEMMA OwnLife ==
  ASSUME ProcInv, NEW p \in Pid, p # init, pc[p] # "none"
  PROVE  /\ p_parent[p] \in Pid /\ p_parent[p] # p /\ p < process_curpid
         /\ Runs(p_parent[p], p) \/ Exited(p_parent[p], p)
<1>1. LifeOf(p_parent[p], p) /\ p < process_curpid /\ p_parent[p] \in Pid /\ p_parent[p] < p
  BY Zenon DEF ProcInv, LifeInv, Unborn
<1>2. p_parent[p] # p
  BY <1>1, PidFacts
<1>3. QED
  BY <1>1, <1>2, Zenon DEF LifeOf, Made, Reaped, Buried, Gone

\* The child that sys_clone makes.
LEMMA MadeChild ==
  ASSUME ProcInv, NEW p \in Pid, pc[p] \in Cloning
  PROVE  /\ other[p] \in Pid /\ other[p] # p /\ other[p] # init
         /\ other[p] < process_curpid /\ p_parent[other[p]] = p
         /\ Made(p, other[p])
<1>1. other[p] \in Pid
  BY DEF ProcInv, OtherInv, WorksOn, ProcTypeOK
<1>2. other[p] # p /\ p_parent[other[p]] = p
  BY <1>1, PidFacts, Zenon DEF ProcInv, OtherInv, WorksOn, Cloning
<1>3. other[p] # init
  BY <1>2, Zenon DEF ProcInv, LifeInv
<1>4. other[p] < process_curpid /\ LifeOf(p, other[p])
  BY <1>1, <1>2, <1>3, PidFacts, Zenon DEF ProcInv, LifeInv, Unborn
<1>5. QED
  BY <1>1, <1>2, <1>3, <1>4, Zenon DEF LifeOf, Runs, Exited, Reaped, Buried, Gone, Cloning

\* The child that sys_waitpid destroys.
LEMMA ReapedChild ==
  ASSUME ProcInv, NEW p \in Pid, pc[p] \in Reaping
  PROVE  /\ other[p] \in Pid /\ other[p] # init /\ other[p] # p
         /\ other[p] < process_curpid /\ p_parent[other[p]] = p
         /\ pc[p] = "destroy" => Exited(p, other[p])
         /\ pc[p] = "reap" => Reaped(p, other[p])
         /\ pc[p] = "delete" => Buried(p, other[p])
<1>1. other[p] \in Pid
  BY DEF ProcInv, OtherInv, WorksOn, ProcTypeOK
<1>2. p_parent[other[p]] = p /\ other[p] # p
  BY <1>1, PidFacts, Zenon DEF ProcInv, OtherInv, WorksOn
<1>3. other[p] # init
  BY <1>2, Zenon DEF ProcInv, LifeInv
<1>4. other[p] < process_curpid /\ LifeOf(p, other[p])
  BY <1>1, <1>2, <1>3, PidFacts, Zenon DEF ProcInv, LifeInv, Unborn
<1>5. QED
  BY <1>1, <1>2, <1>3, <1>4, Zenon
  DEF LifeOf, Made, Runs, Exited, Reaped, Buried, Gone, Cloning, Reaping

\* What a step must leave alone so that c stays where it is in its life.
LEMMA LifeFrame ==
  ASSUME NEW p, NEW c, LifeOf(p, c),
         pc'[c] = pc[c], thread'[c] = thread[c], p_state'[c] = p_state[c],
         p_refcount'[c] = p_refcount[c], p_exit_status'[c] = p_exit_status[c],
         reported'[c] = reported[c],
         c \in Children(p)' <=> c \in Children(p),
         other'[p] = c <=> other[p] = c,
         other[p] = c => pc'[p] = pc[p]
  PROVE  LifeOf(p, c)'
<1>1. Made(p, c) => Made(p, c)'
  BY Zenon DEF Made
<1>2. Runs(p, c) => Runs(p, c)'
  BY Zenon DEF Runs, Live
<1>3. Exited(p, c) => Exited(p, c)'
  BY Zenon DEF Exited
<1>4. Reaped(p, c) => Reaped(p, c)'
  BY Zenon DEF Reaped
<1>5. Buried(p, c) => Buried(p, c)'
  BY Zenon DEF Buried
<1>6. Gone(p, c) => Gone(p, c)'
  BY Zenon DEF Gone
<1>7. QED
  BY <1>1, <1>2, <1>3, <1>4, <1>5, <1>6, Zenon DEF LifeOf

\* A step of p that changes, besides p, at most one child c of p.
LEMMA LifeStep ==
  ASSUME ProcInv, NEW p \in Pid, NEW c,
         process_curpid' = process_curpid, p_parent' = p_parent,
         \A x \in Pid \ {p, c} :
           /\ pc'[x] = pc[x] /\ thread'[x] = thread[x] /\ p_state'[x] = p_state[x]
           /\ p_refcount'[x] = p_refcount[x] /\ p_exit_status'[x] = p_exit_status[x]
           /\ reported'[x] = reported[x],
         \A r \in Pid \ {p} : other'[r] = other[r] /\ p_children'[r] = p_children[r],
         \A x \in Pid \ {c} : x \in Children(p)' <=> x \in Children(p),
         other[p] \in {None, p, c}, other'[p] \in {None, p, c},
         c \in Pid => c # init /\ c < process_curpid /\ p_parent[c] = p /\ LifeOf(p, c)',
         c \in Pid => pc'[c] = pc[c] \/ pc[c] = "none",
         p # init => LifeOf(p_parent[p], p)',
         p = init => /\ Live(p)' /\ thread'[p] = thread[p] /\ p_state'[p] = p_state[p]
                     /\ p_refcount'[p] = p_refcount[p]
                     /\ p_exit_status'[p] = p_exit_status[p],
         pc[p] # "none"
  PROVE  LifeInv'
<1>1. /\ p_parent'[init] = init /\ Live(init)'
      /\ p_state'[init] = "active" /\ thread'[init] = "ready"
      /\ p_refcount'[init] = 2 /\ p_exit_status'[init] = None
  BY PidFacts DEF ProcInv, LifeInv, Live
<1>2. ASSUME NEW x \in Pid \ {init}, x # p, x # c
      PROVE  \/ x >= process_curpid /\ Unborn(x)'
             \/ /\ x < process_curpid /\ p_parent[x] \in Pid /\ p_parent[x] < x
                /\ LifeOf(p_parent[x], x)'
  <2>1. CASE x >= process_curpid /\ Unborn(x)
    BY <1>2, <2>1, Zenon DEF Unborn
  <2>2. CASE /\ x < process_curpid /\ p_parent[x] \in Pid /\ p_parent[x] < x
             /\ LifeOf(p_parent[x], x)
    <3>1. PICK r \in Pid : r = p_parent[x]
      BY <2>2, Zenon
    <3>2. /\ pc'[x] = pc[x] /\ thread'[x] = thread[x] /\ p_state'[x] = p_state[x]
          /\ p_refcount'[x] = p_refcount[x] /\ p_exit_status'[x] = p_exit_status[x]
          /\ reported'[x] = reported[x]
      BY <1>2, Zenon
    <3>3. CASE r = p
      <4>1. x \in Children(r)' <=> x \in Children(r)
        BY <1>2, <3>3, Zenon
      <4>2. other'[r] # x /\ other[r] # x
        BY <1>2, <3>3, PidFacts
      <4>3. QED
        BY <2>2, <3>1, <3>2, <4>1, <4>2, LifeFrame, Zenon
    <3>4. CASE r # p
      <4>1. x \in Children(r)' <=> x \in Children(r)
        BY <3>4, Zenon DEF Children
      <4>2. other'[r] = other[r]
        BY <3>4, Zenon
      <4>3. other[r] = x => pc'[r] = pc[r]
        <5>1. CASE r = c
          <6>1. pc[r] = "none" => other[r] = None
            BY Zenon DEF ProcInv, OtherInv, WorksOn, Cloning, Reaping
          <6>2. QED
            BY <5>1, <6>1, PidFacts, Zenon
        <5>2. CASE r # c
          BY <3>4, <5>2, Zenon
        <5>3. QED
          BY <5>1, <5>2, Zenon
      <4>4. QED
        BY <2>2, <3>1, <3>2, <4>1, <4>2, <4>3, LifeFrame, Zenon
    <3>5. QED
      BY <3>3, <3>4, Zenon
  <2>3. QED
    BY <1>2, <2>1, <2>2, Zenon DEF ProcInv, LifeInv
<1>3. p # init => p < process_curpid /\ p_parent[p] \in Pid /\ p_parent[p] < p
  BY Zenon DEF ProcInv, LifeInv, Unborn
<1>4. c \in Pid => p < c
  BY PidFacts DEF ProcInv, LifeInv, Unborn
<1>5. QED
  BY <1>1, <1>2, <1>3, <1>4, Zenon DEF LifeInv

\* A thread that goes from one place in its system calls to another.
LEMMA SelfLive ==
  ASSUME ProcInv, NEW p \in Pid, p # init, Live(p), Live(p)', p_parent' = p_parent,
         thread'[p] = thread[p], p_state'[p] = p_state[p], p_refcount'[p] = p_refcount[p],
         p_exit_status'[p] = p_exit_status[p], reported'[p] = reported[p],
         \A r \in Pid \ {p} : other'[r] = other[r] /\ p_children'[r] = p_children[r]
  PROVE  LifeOf(p_parent[p], p)'
<1>1. PICK r \in Pid : r = p_parent[p] /\ r # p /\ Runs(r, p)
  BY OwnLife, Zenon DEF Live, Exited, Exiting
<1>2. Runs(r, p)'
  BY <1>1, Zenon DEF Runs, Children
<1>3. QED
  BY <1>1, <1>2, Zenon DEF LifeOf

\* The child that WaitAndLock looks at, which is locked.
LEMMA ScannedChild ==
  ASSUME ProcInv, NEW p \in Pid, pc[p] = "check", NEW c, c = p_children[p][next[p]]
  PROVE  /\ c \in Pid /\ c \in Children(p) /\ c # init /\ c # p
         /\ p_parent[c] = p /\ c < process_curpid /\ LifeOf(p, c) /\ p_lock[c] = p
<1>1. next[p] \in 1 .. Len(p_children[p]) /\ p_children[p] \in Seq(Pid) /\ p_lock[c] = p
  BY DEF ProcInv, LockInv, LocksOf, ProcTypeOK
<1>2. c \in Pid /\ c \in Children(p)
  BY <1>1 DEF Children, Members
<1>3. c # init /\ p_parent[c] = p
  BY <1>2, Zenon DEF ProcInv, ChildrenInv
<1>4. c < process_curpid /\ p < c /\ LifeOf(p, c)
  BY <1>2, <1>3, PidFacts, Zenon DEF ProcInv, LifeInv, Unborn
<1>5. c # p
  BY <1>4, <1>2, PidFacts
<1>6. QED
  BY <1>1, <1>2, <1>3, <1>4, <1>5, Zenon

-----------------------------------------------------------------------------
(* LifeInv.                                                                *)

\* The steps of system calls in which nothing happens to the children.
Calls(p) ==
  \/ WaitPid(p) \/ WaitLock(p) \/ LockNextChild(p) \/ SkipChild(p) \/ NoZombie(p)
  \/ Sleep(p)

\* They change where p is and nothing else of its life.
LEMMA CallsFacts ==
  ASSUME ProcInv, NEW p \in Pid, Calls(p)
  PROVE  /\ Live(p) /\ pc'[p] \in Waiting /\ other[p] = None /\ other' = other
         /\ \A x \in Pid \ {p} : pc'[x] = pc[x]
         /\ UNCHANGED <<process_curpid, p_state, p_exit_status, p_refcount, p_parent>>
         /\ UNCHANGED <<p_children, thread, reported>>
<1> USE DEF ProcInv, ProcTypeOK, Calls, Goto, memory, local
<1>1. /\ UNCHANGED <<process_curpid, p_state, p_exit_status, p_refcount, p_parent>>
      /\ UNCHANGED <<other, p_children, thread, reported>>
  BY Zenon DEF WaitPid, WaitLock, LockNextChild, SkipChild, NoZombie, Sleep
<1>2. pc[p] \in Waiting \cup {"user"}
  BY Zenon DEF WaitPid, WaitLock, LockNextChild, SkipChild, NoZombie, Sleep, Waiting
<1>3. pc'[p] \in Waiting /\ \A x \in Pid \ {p} : pc'[x] = pc[x]
  BY DEF WaitPid, WaitLock, LockNextChild, SkipChild, NoZombie, Sleep, Waiting
<1>4. Live(p) /\ other[p] = None
  BY <1>2, Zenon DEF Live, Exiting, Waiting, OtherInv, WorksOn, Cloning, Reaping
<1>5. QED
  BY <1>1, <1>3, <1>4, Zenon

\* So every process stays where it is in its life.
LEMMA LifeCalls ==
  ASSUME ProcInv, NEW p \in Pid, Calls(p)
  PROVE  LifeInv'
<1>1. /\ Live(p) /\ pc'[p] \in Waiting /\ other[p] = None /\ other' = other
      /\ \A x \in Pid \ {p} : pc'[x] = pc[x]
      /\ UNCHANGED <<process_curpid, p_state, p_exit_status, p_refcount, p_parent>>
      /\ UNCHANGED <<p_children, thread, reported>>
  BY CallsFacts, Zenon
<1>2. Live(p)'
  BY <1>1, Zenon DEF Live, Exiting, Waiting
<1>3. p # init => LifeOf(p_parent[p], p)'
  BY <1>1, <1>2, SelfLive, Zenon
<1>4. \A x \in Pid \ {None} : x \in Children(p)' <=> x \in Children(p)
  BY <1>1, Zenon DEF Children
<1>5. pc[p] # "none" /\ None \notin Pid
  BY <1>1, PidFacts, Zenon DEF Live
<1>6. QED
  BY <1>1, <1>2, <1>3, <1>4, <1>5, LifeStep, Zenon

\* sys_clone after process_alloc.
LEMMA LifeClone ==
  ASSUME ProcInv, NEW p \in Pid, LinkChild(p) \/ LockChild(p) \/ ThreadClone(p)
  PROVE  LifeInv'
<1> USE DEF Goto, memory, local
<1>1. pc[p] \in Cloning /\ Live(p) /\ pc[p] # "none"
  BY Zenon DEF LinkChild, LockChild, ThreadClone, Cloning, Live, Exiting
<1>2. PICK c \in Pid : /\ c = other[p] /\ c # p /\ c # init
                       /\ c < process_curpid /\ p_parent[c] = p /\ Made(p, c)
  BY <1>1, MadeChild, Zenon
<1>3. /\ process_curpid' = process_curpid /\ p_parent' = p_parent
      /\ p_state' = p_state /\ p_exit_status' = p_exit_status /\ reported' = reported
  BY Zenon DEF LinkChild, LockChild, ThreadClone
<1>4. /\ \A x \in Pid \ {p, c} : pc'[x] = pc[x]
      /\ \A x \in Pid \ {c} : p_refcount'[x] = p_refcount[x] /\ thread'[x] = thread[x]
      /\ \A r \in Pid \ {p} : other'[r] = other[r] /\ p_children'[r] = p_children[r]
      /\ pc'[p] \in {"lock", "thread", "user"} /\ other'[p] \in {None, p, c}
      /\ pc'[c] = pc[c] \/ pc[c] = "none"
  <2>1. CASE LinkChild(p)
    BY <1>2, <2>1, Zenon DEF LinkChild, ProcInv, ProcTypeOK
  <2>2. CASE LockChild(p)
    BY <1>2, <2>2, Zenon DEF LockChild, ProcInv, ProcTypeOK
  <2>3. CASE ThreadClone(p)
    BY <1>2, <2>3, Zenon DEF ThreadClone, ProcInv, ProcTypeOK, Made
  <2>4. QED
    BY <2>1, <2>2, <2>3, Zenon
<1>5. Live(p)'
  BY <1>4, Zenon DEF Live, Exiting
<1>6. p # init => LifeOf(p_parent[p], p)'
  BY <1>1, <1>2, <1>3, <1>4, <1>5, SelfLive, Zenon
<1>7. /\ \A x \in Pid \ {c} : x \in Children(p)' <=> x \in Children(p)
      /\ LifeOf(p, c)'
  <2>1. CASE LinkChild(p)
    <3>1. c \notin Children(p)
      BY <1>2, <2>1, Zenon DEF LinkChild, Made
    <3>2. Holds(p_children[p], Children(p))
      BY HoldsMembers, Zenon DEF ProcInv, ProcTypeOK, ChildrenInv, Children
    <3>3. p_children'[p] = Append(p_children[p], c)
      BY <1>2, <2>1, Zenon DEF LinkChild, ProcInv, ProcTypeOK
    <3>4. Children(p)' = Children(p) \cup {c}
      BY <3>1, <3>2, <3>3, AppendHolds, Zenon DEF Holds, Children
    <3>5. /\ pc'[p] = "lock" /\ pc'[c] = pc[c]
          /\ UNCHANGED <<other, thread, p_refcount>>
      BY <1>2, <2>1, Zenon DEF LinkChild, ProcInv, ProcTypeOK
    <3>6. Made(p, c)'
      BY <1>2, <1>3, <3>4, <3>5, Zenon DEF Made, Cloning
    <3>7. QED
      BY <3>4, <3>6, Zenon DEF LifeOf
  <2>2. CASE LockChild(p)
    <3>1. /\ pc[p] = "lock" /\ pc'[p] = "thread" /\ pc'[c] = pc[c]
          /\ UNCHANGED <<other, thread, p_refcount, p_children>>
      BY <1>2, <2>2, Zenon DEF LockChild, ProcInv, ProcTypeOK
    <3>2. Made(p, c)'
      BY <1>2, <1>3, <3>1, Zenon DEF Made, Cloning, Children
    <3>3. QED
      BY <3>1, <3>2, Zenon DEF LifeOf, Children
  <2>3. CASE ThreadClone(p)
    <3>1. /\ pc[p] = "thread" /\ pc'[p] = "user" /\ pc'[c] = "user"
          /\ other'[p] = None /\ UNCHANGED p_children
          /\ thread'[c] = "ready" /\ p_refcount'[c] = p_refcount[c] + 1
      BY <1>2, <2>3, Zenon DEF ThreadClone, ProcInv, ProcTypeOK
    <3>2. Runs(p, c)'
      BY <1>2, <1>3, <3>1, PidFacts DEF Made, Runs, Children, Live, Exiting
    <3>3. QED
      BY <3>1, <3>2, Zenon DEF LifeOf, Children
  <2>4. QED
    BY <2>1, <2>2, <2>3, Zenon
<1>8. QED
  BY <1>1, <1>2, <1>3, <1>4, <1>5, <1>6, <1>7, LifeStep

\* process_alloc makes the process with the next id.
LEMMA LifeAlloc ==
  ASSUME ProcInv, NEW p \in Pid, ProcessAlloc(p)
  PROVE  LifeInv'
<1> USE DEF Goto
<1>1. PICK c \in Pid : c = process_curpid
  BY Zenon DEF ProcessAlloc
<1>2. /\ pc[p] = "user" /\ pc' = [pc EXCEPT ![p] = "link"]
      /\ process_curpid' = c + 1
      /\ p_state' = [p_state EXCEPT ![c] = "active"]
      /\ p_parent' = [p_parent EXCEPT ![c] = p]
      /\ p_refcount' = [p_refcount EXCEPT ![c] = 1]
      /\ other' = [other EXCEPT ![p] = c]
      /\ UNCHANGED <<p_exit_status, p_children, thread, reported>>
  BY <1>1, Zenon DEF ProcessAlloc
<1>3. c # init /\ c > init /\ Unborn(c)
  <2>1. c # init /\ c \in Nat /\ c >= init /\ Unborn(c)
    BY <1>1, NextPid, Zenon
  <2>2. QED
    BY <2>1, PidFacts
<1>4. c # p /\ p < c /\ other[p] = None
  <2>1. c # p
    BY <1>2, <1>3, Zenon DEF Unborn
  <2>2. p = init \/ p < process_curpid
    BY <1>2, OwnLife, Zenon
  <2>3. other[p] = None
    BY <1>2, Zenon DEF ProcInv, OtherInv, WorksOn, Cloning, Reaping
  <2>4. QED
    BY <1>1, <1>3, <2>1, <2>2, <2>3, PidFacts, Zenon
<1> USE DEF ProcInv, ProcTypeOK
<1>5. /\ p_parent'[init] = init /\ Live(init)'
      /\ p_state'[init] = "active" /\ thread'[init] = "ready"
      /\ p_refcount'[init] = 2 /\ p_exit_status'[init] = None
  BY <1>2, <1>3, PidFacts DEF LifeInv, Live, Exiting
<1>6. Made(p, c)'
  <2>1. c \notin Children(p)'
    BY <1>2, <1>3, PidFacts DEF ChildrenInv, Unborn, Children
  <2>2. QED
    BY <1>2, <1>3, <1>4, <2>1, Zenon DEF Made, Unborn, Cloning
<1>7. ASSUME NEW x \in Pid \ {init}, x # c
      PROVE  \/ x >= process_curpid' /\ Unborn(x)'
             \/ /\ x < process_curpid' /\ p_parent'[x] \in Pid /\ p_parent'[x] < x
                /\ LifeOf(p_parent[x], x)'
  <2>1. CASE x >= process_curpid /\ Unborn(x)
    <3>1. x # p
      BY <1>2, <2>1, Zenon DEF Unborn
    <3>2. Unborn(x)'
      BY <1>2, <1>7, <2>1, <3>1, Zenon DEF Unborn
    <3>3. x >= process_curpid'
      <4>1. x \in Nat /\ c \in Nat /\ x >= c /\ x # c
        BY <1>1, <1>7, <2>1, PidFacts, Zenon
      <4>2. x >= c + 1
        BY <4>1, PidOrder, Zenon
      <4>3. QED
        BY <1>2, <4>2, Zenon
    <3>4. QED
      BY <3>2, <3>3, Zenon
  <2>2. CASE /\ x < process_curpid /\ p_parent[x] \in Pid /\ p_parent[x] < x
             /\ LifeOf(p_parent[x], x)
    <3>1. PICK r \in Pid : r = p_parent[x] /\ r = p_parent'[x] /\ r < x /\ LifeOf(r, x)
      BY <1>2, <1>7, <2>2, Zenon
    <3>2. x < process_curpid'
      <4>1. x \in Nat /\ c \in Nat /\ x < c
        BY <1>1, <1>7, <2>2, PidFacts, Zenon
      <4>2. x < c + 1
        BY <4>1, PidOrder, Zenon
      <4>3. QED
        BY <1>2, <4>2, Zenon
    <3>3. LifeOf(r, x)'
      <4>1. CASE x = p
        <5>1. Runs(r, x) /\ r # p
          <6>1. p # init /\ pc[p] = "user" /\ r = p_parent[p]
            BY <1>2, <3>1, <4>1, Zenon
          <6>2. Runs(r, p) \/ Exited(r, p)
            BY <6>1, OwnLife, Zenon
          <6>3. ~Exited(r, p)
            BY <6>1, Zenon DEF Exited
          <6>4. r # p
            BY <6>1, OwnLife, Zenon
          <6>5. QED
            BY <4>1, <6>2, <6>3, <6>4, Zenon
        <5>2. Runs(r, x)'
          BY <1>2, <1>4, <4>1, <5>1, Zenon DEF Runs, Live, Exiting, Children
        <5>3. QED
          BY <5>2, Zenon DEF LifeOf
      <4>2. CASE x # p
        <5>1. /\ pc'[x] = pc[x] /\ thread'[x] = thread[x] /\ p_state'[x] = p_state[x]
              /\ p_refcount'[x] = p_refcount[x] /\ p_exit_status'[x] = p_exit_status[x]
              /\ reported'[x] = reported[x]
          BY <1>2, <1>7, <4>2, Zenon
        <5>2. x \in Children(r)' <=> x \in Children(r)
          BY <1>2, Zenon DEF Children
        <5>3. /\ other'[r] = x <=> other[r] = x
              /\ other[r] = x => pc'[r] = pc[r]
          BY <1>2, <1>4, <1>7, PidFacts, Zenon
        <5>4. QED
          BY <3>1, <5>1, <5>2, <5>3, LifeFrame, Zenon
      <4>3. QED
        BY <4>1, <4>2, Zenon
    <3>4. QED
      BY <3>1, <3>2, <3>3, Zenon
  <2>3. QED
    BY <1>7, <2>1, <2>2, Zenon DEF LifeInv
<1>8. c < process_curpid' /\ p_parent'[c] = p /\ LifeOf(p_parent[c], c)'
  <2>1. p_parent'[c] = p
    BY <1>2, Zenon
  <2>2. c < process_curpid'
    BY <1>1, <1>2, PidFacts, PidOrder, Zenon
  <2>3. QED
    BY <1>6, <2>1, <2>2, Zenon DEF LifeOf
<1>9. QED
  BY <1>4, <1>5, <1>7, <1>8, Zenon DEF LifeInv

\* Thread::Terminate.
Exits(p) ==
  \/ /\ Orphans \/ p_children[p] = <<>>
     /\ \E status \in Status : Terminate(p, status)
  \/ ExitThread(p) \/ SignalExit(p) \/ UnlockExited(p) \/ Schedule(p)

\* A process that exits is not init and works on nobody; only itself changes.
LEMMA ExitFacts ==
  ASSUME ProcInv, NEW p \in Pid, Exits(p)
  PROVE  /\ p # init /\ pc[p] # "none" /\ pc[p] \in Exiting \cup {"user"}
         /\ other[p] = None /\ other' = other
         /\ UNCHANGED <<process_curpid, p_parent, p_children, p_refcount, reported>>
         /\ \A x \in Pid \ {p} :
              /\ pc'[x] = pc[x] /\ thread'[x] = thread[x] /\ p_state'[x] = p_state[x]
              /\ p_exit_status'[x] = p_exit_status[x]
<1> USE DEF Exits, Goto, memory, local, ProcInv, ProcTypeOK
<1>1. pc[p] \in Exiting \cup {"user"}
  BY Zenon DEF Terminate, ExitThread, SignalExit, UnlockExited, Schedule, Exiting
<1>2. p # init
  BY Zenon
  DEF Terminate, ExitThread, SignalExit, UnlockExited, Schedule, Exiting, LifeInv, Live
<1>3. other[p] = None /\ pc[p] # "none"
  BY <1>1, Zenon DEF OtherInv, WorksOn, Exiting, Cloning, Reaping
<1>4. /\ other' = other
      /\ UNCHANGED <<process_curpid, p_parent, p_children, p_refcount, reported>>
  BY Zenon DEF Terminate, ExitThread, SignalExit, UnlockExited, Schedule
<1>5. \A x \in Pid \ {p} :
        /\ pc'[x] = pc[x] /\ thread'[x] = thread[x] /\ p_state'[x] = p_state[x]
        /\ p_exit_status'[x] = p_exit_status[x]
  BY DEF Terminate, ExitThread, SignalExit, UnlockExited, Schedule
<1>6. QED
  BY <1>1, <1>2, <1>3, <1>4, <1>5, Zenon

\* A process that exits goes on with its life, and the others with theirs.
LEMMA LifeExit ==
  ASSUME ProcInv, NEW p \in Pid, Exits(p)
  PROVE  LifeInv'
<1>1. /\ p # init /\ pc[p] # "none"
      /\ other[p] = None /\ other' = other
      /\ UNCHANGED <<process_curpid, p_parent, p_children, p_refcount, reported>>
      /\ \A x \in Pid \ {p} :
           /\ pc'[x] = pc[x] /\ thread'[x] = thread[x] /\ p_state'[x] = p_state[x]
           /\ p_exit_status'[x] = p_exit_status[x]
  BY ExitFacts, Zenon
<1>2. PICK r \in Pid : r = p_parent[p] /\ r # p /\ (Runs(r, p) \/ Exited(r, p))
  BY <1>1, OwnLife, Zenon
<1>3. LifeOf(r, p)'
  <2> USE DEF Goto, memory, local, ProcInv, ProcTypeOK
  <2>1. ASSUME NEW status \in Status, Terminate(p, status)
        PROVE  Runs(r, p)'
    <3>1. pc[p] = "user" /\ pc'[p] = "exit" /\ thread' = thread
          /\ p_state'[p] = "zombie" /\ p_exit_status'[p] = status
      BY <2>1, Zenon DEF Terminate
    <3>2. QED
      BY <1>1, <1>2, <3>1, PidFacts, Zenon DEF Runs, Exited, Live, Exiting, Children
  <2>2. CASE ExitThread(p)
    <3>1. /\ pc[p] = "exit" /\ pc'[p] = "signal" /\ thread'[p] = "zombie"
          /\ UNCHANGED <<p_state, p_exit_status>>
      BY <2>2, Zenon DEF ExitThread
    <3>2. Exited(r, p)'
      BY <1>1, <1>2, <3>1, Zenon DEF Runs, Exited, Live, Exiting, Children
    <3>3. QED
      BY <3>2, Zenon DEF LifeOf
  <2>3. CASE SignalExit(p) \/ UnlockExited(p)
    <3>1. /\ pc[p] \in {"signal", "unlock"} /\ pc'[p] \in {"unlock", "schedule"}
          /\ UNCHANGED <<p_state, p_exit_status, thread>>
      BY <2>3, Zenon DEF SignalExit, UnlockExited
    <3>2. Exited(r, p)'
      BY <1>1, <1>2, <3>1, Zenon DEF Runs, Exited, Live, Exiting, Children
    <3>3. QED
      BY <3>2, Zenon DEF LifeOf
  <2>4. CASE Schedule(p)
    <3>1. /\ pc[p] = "schedule" /\ pc'[p] = "none" /\ thread'[p] = "inactive"
          /\ UNCHANGED <<p_state, p_exit_status>> /\ pc'[r] = pc[r]
      BY <1>1, <1>2, <2>4, Zenon DEF Schedule
    <3>2. Exited(r, p)'
      BY <1>1, <1>2, <3>1, Zenon DEF Runs, Exited, Live, Exiting, Children
    <3>3. QED
      BY <3>2, Zenon DEF LifeOf
  <2>5. QED
    BY <2>1, <2>2, <2>3, <2>4, Zenon DEF Exits, LifeOf
<1>4. \A x \in Pid \ {None} : x \in Children(p)' <=> x \in Children(p)
  BY <1>1, Zenon DEF Children
<1>5. QED
  BY <1>1, <1>2, <1>3, <1>4, PidFacts, LifeStep, Zenon

\* sys_waitpid when WaitAndLock has found a zombie.
LEMMA LifeFound ==
  ASSUME ProcInv, NEW p \in Pid, FoundZombie(p)
  PROVE  LifeInv'
<1> USE DEF Goto, memory
<1>1. PICK c : c = p_children[p][next[p]]
  BY Zenon
<1>2. pc[p] = "check" /\ Live(p) /\ p_state[c] = "zombie" /\ other[p] = None
  BY <1>1, Zenon DEF FoundZombie, Live, Exiting, ProcInv, OtherInv, WorksOn, Cloning, Reaping
<1>3. /\ c \in Pid /\ c \in Children(p) /\ c # init /\ c # p
      /\ p_parent[c] = p /\ c < process_curpid /\ LifeOf(p, c) /\ p_lock[c] = p
  BY <1>1, <1>2, ScannedChild, Zenon
<1>4. Exited(p, c) /\ pc[c] \in {"schedule", "none"}
  <2>1. pc[c] \notin {"exit", "signal", "unlock"}
    BY <1>3, Zenon DEF ProcInv, LockInv, LocksOf
  <2>2. QED
    BY <1>2, <1>3, <2>1, Zenon
    DEF LifeOf, Made, Runs, Exited, Reaped, Buried, Gone, Live, Exiting
<1> USE DEF ProcInv, ProcTypeOK
<1>5. /\ pc' = [pc EXCEPT ![p] = "destroy"] /\ other' = [other EXCEPT ![p] = c]
      /\ p_children' = [p_children EXCEPT ![p] = Remove(@, c)]
      /\ UNCHANGED <<process_curpid, p_state, p_exit_status, p_refcount, p_parent>>
      /\ UNCHANGED <<thread, reported>>
  BY <1>1, Zenon DEF FoundZombie
<1>6. Children(p)' = Children(p) \ {c}
  <2>1. Holds(p_children[p], Children(p))
    BY HoldsMembers, Zenon DEF ChildrenInv, Children
  <2>2. Holds(Remove(p_children[p], c), Children(p) \ {c})
    BY <1>3, <2>1, RemoveHolds, Zenon
  <2>3. p_children'[p] = Remove(p_children[p], c)
    BY <1>5, Zenon
  <2>4. QED
    BY <2>2, <2>3, Zenon DEF Holds, Children
<1>7. LifeOf(p, c)'
  <2>1. pc'[p] = "destroy" /\ other'[p] = c /\ pc'[c] = pc[c] /\ c \notin Children(p)'
    BY <1>3, <1>5, <1>6, Zenon
  <2>2. Exited(p, c)'
    BY <1>4, <1>5, <2>1, Zenon DEF Exited
  <2>3. QED
    BY <2>2, Zenon DEF LifeOf
<1>8. Live(p)' /\ pc[p] # "none" /\ \A x \in Pid \ {p} : pc'[x] = pc[x]
  BY <1>2, <1>5, Zenon DEF Live, Exiting
<1>9. /\ \A r \in Pid \ {p} : other'[r] = other[r] /\ p_children'[r] = p_children[r]
      /\ other'[p] = c
  BY <1>5, Zenon
<1>10. p # init => LifeOf(p_parent[p], p)'
  BY <1>2, <1>5, <1>8, <1>9, SelfLive, Zenon
<1>11. /\ \A x \in Pid \ {c} : x \in Children(p)' <=> x \in Children(p)
       /\ pc'[c] = pc[c]
  BY <1>3, <1>6, <1>8, Zenon
<1>12. QED
  BY <1>2, <1>3, <1>5, <1>7, <1>8, <1>9, <1>10, <1>11, LifeStep, Zenon

\* The destruction of the zombie.
LEMMA LifeReap ==
  ASSUME ProcInv, NEW p \in Pid, DestroyThread(p) \/ Reap(p) \/ DeleteProcess(p)
  PROVE  LifeInv'
<1> USE DEF Goto, memory, local
<1>1. pc[p] \in Reaping /\ Live(p) /\ pc[p] # "none"
  BY Zenon DEF DestroyThread, Reap, DeleteProcess, Reaping, Live, Exiting
<1>2. PICK c \in Pid : /\ c = other[p] /\ c # p /\ c # init
                       /\ c < process_curpid /\ p_parent[c] = p
                       /\ pc[p] = "destroy" => Exited(p, c)
                       /\ pc[p] = "reap" => Reaped(p, c)
                       /\ pc[p] = "delete" => Buried(p, c)
  BY <1>1, ReapedChild, Zenon
<1> USE DEF ProcInv, ProcTypeOK
<1>3. UNCHANGED <<process_curpid, p_exit_status, p_parent, p_children>>
  BY Zenon DEF DestroyThread, Reap, DeleteProcess
<1>4. /\ \A x \in Pid \ {p} : pc'[x] = pc[x] /\ other'[x] = other[x]
      /\ \A x \in Pid \ {c} : /\ p_refcount'[x] = p_refcount[x] /\ thread'[x] = thread[x]
                              /\ p_state'[x] = p_state[x] /\ reported'[x] = reported[x]
      /\ other'[p] \in {None, c}
  <2>1. CASE DestroyThread(p)
    BY <1>2, <2>1, Zenon DEF DestroyThread
  <2>2. CASE Reap(p)
    <3>1. \A x \in Pid \ {p} : pc'[x] = pc[x]
      BY <2>2, Zenon DEF Reap
    <3>2. QED
      BY <1>2, <2>2, <3>1, Zenon DEF Reap
  <2>3. CASE DeleteProcess(p)
    BY <1>2, <2>3, Zenon DEF DeleteProcess
  <2>4. QED
    BY <2>1, <2>2, <2>3, Zenon
<1>5. pc'[p] \in {"reap", "delete", "user"} /\ LifeOf(p, c)'
  <2>1. CASE DestroyThread(p)
    <3>1. /\ pc[p] = "destroy" /\ thread[c] = "inactive"
          /\ pc'[p] = "reap" /\ other' = other
          /\ thread'[c] = "none" /\ p_refcount'[c] = p_refcount[c] - 1
          /\ UNCHANGED <<p_state, reported>>
      BY <1>2, <2>1, Zenon DEF DestroyThread, Released
    <3>2. Exited(p, c) /\ pc'[c] = pc[c]
      BY <1>2, <1>4, <3>1, Zenon
    <3>3. Reaped(p, c)'
      BY <1>2, <1>3, <3>1, <3>2 DEF Exited, Reaped, Children
    <3>4. QED
      BY <3>1, <3>3, Zenon DEF LifeOf
  <2>2. CASE Reap(p)
    <3>1. Reaped(p, c) /\ pc'[c] = pc[c]
      BY <1>2, <1>4, <2>2, Zenon DEF Reap
    <3>2. /\ pc'[p] = "delete" /\ other' = other
          /\ UNCHANGED <<p_state, thread>>
      BY <1>2, <2>2, <3>1, Zenon DEF Reap, Reaped
    <3>3. Buried(p, c)'
      BY <1>2, <1>3, <3>1, <3>2, Zenon DEF Reaped, Buried, Children
    <3>4. QED
      BY <3>2, <3>3, Zenon DEF LifeOf
  <2>3. CASE DeleteProcess(p)
    <3>1. /\ pc[p] = "delete" /\ pc'[p] = "user" /\ other'[p] = None
          /\ p_state'[c] = "none" /\ UNCHANGED thread
      BY <1>2, <2>3, Zenon DEF DeleteProcess
    <3>2. Buried(p, c) /\ pc'[c] = pc[c]
      BY <1>2, <1>4, <3>1, Zenon
    <3>3. Gone(p, c)'
      BY <1>2, <1>3, <3>1, <3>2, PidFacts, Zenon DEF Buried, Gone, Children
    <3>4. QED
      BY <3>1, <3>3, Zenon DEF LifeOf
  <2>4. QED
    BY <2>1, <2>2, <2>3, Zenon
<1>6. Live(p)'
  BY <1>5, Zenon DEF Live, Exiting
<1> HIDE DEF ProcInv, ProcTypeOK, LifeOf
<1>7. p # init => LifeOf(p_parent[p], p)'
  BY <1>1, <1>2, <1>3, <1>4, <1>6, SelfLive, Zenon
<1>8. \A x \in Pid \ {c} : x \in Children(p)' <=> x \in Children(p)
  BY <1>3, Zenon DEF Children
<1>9. QED
  BY <1>1, <1>2, <1>3, <1>4, <1>5, <1>6, <1>7, <1>8, LifeStep

-----------------------------------------------------------------------------
(* Types.                                                                  *)

\* Counting keeps the types of counters.
LEMMA CountType ==
  /\ \A f \in [Pid -> Nat] : \A g : [f EXCEPT ![g] = @ + 1] \in [Pid -> Nat]
  /\ \A f \in [Pid -> Int] : \A g : [f EXCEPT ![g] = @ - 1] \in [Pid -> Int]
<1>1. ASSUME NEW f \in [Pid -> Nat], NEW g
      PROVE  [f EXCEPT ![g] = @ + 1] \in [Pid -> Nat]
  <2>1. CASE g \in Pid
    BY <1>1, <2>1
  <2>2. CASE g \notin Pid
    BY <1>1, <2>2, Zenon
  <2>3. QED
    BY <2>1, <2>2, Zenon
<1>2. ASSUME NEW f \in [Pid -> Int], NEW g
      PROVE  [f EXCEPT ![g] = @ - 1] \in [Pid -> Int]
  <2>1. CASE g \in Pid
    BY <1>2, <2>1
  <2>2. CASE g \notin Pid
    BY <1>2, <2>2, Zenon
  <2>3. QED
    BY <2>1, <2>2, Zenon
<1>3. QED
  BY <1>1, <1>2, Zenon

\* The steps of system calls that concern p alone keep the types.
LEMMA TypesCalls ==
  ASSUME ProcInv, NEW p \in Pid, Calls(p)
  PROVE  ProcTypeOK'
<1>0. ProcTypeOK
  BY Zenon DEF ProcInv
<1>1. CASE WaitPid(p)
  <2>1. pc' \in [Pid -> PCs]
    BY <1>0, <1>1, Zenon DEF WaitPid, ProcTypeOK, Goto, PCs, Cloning, Exiting, Waiting, Reaping
  <2>2. QED
    BY <1>0, <1>1, <2>1, Zenon DEF WaitPid, ProcTypeOK, local, memory
<1>2. CASE WaitLock(p)
  <2>1. pc' \in [Pid -> PCs]
    BY <1>0, <1>2, Zenon DEF WaitLock, ProcTypeOK, Goto, PCs, Cloning, Exiting, Waiting, Reaping
  <2>2. /\ next' \in [Pid -> Nat \ {0}]
        /\ p_lock' \in [Pid -> Pid \cup {None}]
    BY <1>0, <1>2 DEF WaitLock, ProcTypeOK, Lock, Unlock
  <2>3. QED
    BY <1>0, <1>2, <2>1, <2>2, Zenon DEF WaitLock, ProcTypeOK, local, memory
<1>3. CASE LockNextChild(p)
  <2>1. pc' \in [Pid -> PCs]
    BY <1>0, <1>3, Zenon
    DEF LockNextChild, ProcTypeOK, Goto, PCs, Cloning, Exiting, Waiting, Reaping
  <2>2. p_lock' \in [Pid -> Pid \cup {None}]
    BY <1>0, <1>3, Zenon DEF LockNextChild, ProcTypeOK, Lock, Unlock
  <2>3. QED
    BY <1>0, <1>3, <2>1, <2>2, Zenon DEF LockNextChild, ProcTypeOK, local, memory
<1>4. CASE SkipChild(p)
  <2>1. pc' \in [Pid -> PCs]
    BY <1>0, <1>4, Zenon
    DEF SkipChild, ProcTypeOK, Goto, PCs, Cloning, Exiting, Waiting, Reaping
  <2>2. next' \in [Pid -> Nat \ {0}]
    BY <1>0, <1>4 DEF SkipChild, ProcTypeOK
  <2>3. p_lock' \in [Pid -> Pid \cup {None}]
    BY <1>0, <1>4, Zenon DEF SkipChild, ProcTypeOK, Lock, Unlock
  <2>4. QED
    BY <1>0, <1>4, <2>1, <2>2, <2>3, Zenon DEF SkipChild, ProcTypeOK, local, memory
<1>5. CASE NoZombie(p)
  <2>1. pc' \in [Pid -> PCs]
    BY <1>0, <1>5, Zenon DEF NoZombie, ProcTypeOK, Goto, PCs, Cloning, Exiting, Waiting, Reaping
  <2>2. p_lock' \in [Pid -> Pid \cup {None}]
    BY <1>0, <1>5, Zenon DEF NoZombie, ProcTypeOK, Lock, Unlock
  <2>3. QED
    BY <1>0, <1>5, <2>1, <2>2, Zenon DEF NoZombie, ProcTypeOK, local, memory
<1>6. CASE Sleep(p)
  <2>1. pc' \in [Pid -> PCs]
    BY <1>0, <1>6, Zenon DEF Sleep, ProcTypeOK, Goto, PCs, Cloning, Exiting, Waiting, Reaping
  <2>2. p_child_wait' \in [Pid -> Nat]
    BY <1>0, <1>6 DEF Sleep, ProcTypeOK
  <2>3. QED
    BY <1>0, <1>6, <2>1, <2>2, Zenon DEF Sleep, ProcTypeOK, local, memory
<1>7. QED
  BY <1>1, <1>2, <1>3, <1>4, <1>5, <1>6, Zenon DEF Calls

\* So do clone ...
LEMMA TypesClone ==
  ASSUME ProcInv, NEW p \in Pid,
         ProcessAlloc(p) \/ LinkChild(p) \/ LockChild(p) \/ ThreadClone(p)
  PROVE  ProcTypeOK'
<1>0. ProcTypeOK
  BY Zenon DEF ProcInv
<1>1. pc[p] \in Cloning => other[p] \in Pid
  BY MadeChild, Zenon
<1>2. CASE ProcessAlloc(p)
  <2>1. pc' \in [Pid -> PCs]
    BY <1>0, <1>2, Zenon
    DEF ProcessAlloc, ProcTypeOK, Goto, PCs, Cloning, Exiting, Waiting, Reaping
  <2>2. process_curpid' \in Nat \ {0, init}
    BY <1>0, <1>2 DEF ProcessAlloc, ProcTypeOK, init
  <2>3. /\ p_state' \in [Pid -> {"none", "active", "zombie"}]
        /\ p_parent' \in [Pid -> Pid \cup {None}]
    BY <1>0, <1>2, Zenon DEF ProcessAlloc, ProcTypeOK, init
  <2>4. /\ p_refcount' \in [Pid -> Int]
        /\ other' \in [Pid -> Pid \cup {None}]
    <3>1. 1 \in Int
      OBVIOUS
    <3>2. QED
      BY <1>0, <1>2, <3>1, Zenon DEF ProcessAlloc, ProcTypeOK
  <2>5. QED
    BY <1>0, <1>2, <2>1, <2>2, <2>3, <2>4, Zenon
    DEF ProcessAlloc, ProcTypeOK, local, memory
<1>3. CASE LinkChild(p)
  <2>1. pc' \in [Pid -> PCs]
    BY <1>0, <1>3, Zenon
    DEF LinkChild, ProcTypeOK, Goto, PCs, Cloning, Exiting, Waiting, Reaping
  <2>2. p_children' \in [Pid -> Seq(Pid)]
    BY <1>0, <1>3, <1>1 DEF LinkChild, ProcTypeOK, Cloning
  <2>3. QED
    BY <1>0, <1>3, <2>1, <2>2, Zenon DEF LinkChild, ProcTypeOK, local, memory
<1>4. CASE LockChild(p)
  <2>1. pc' \in [Pid -> PCs]
    BY <1>0, <1>4, Zenon
    DEF LockChild, ProcTypeOK, Goto, PCs, Cloning, Exiting, Waiting, Reaping
  <2>2. p_lock' \in [Pid -> Pid \cup {None}]
    BY <1>0, <1>4, <1>1, Zenon DEF LockChild, ProcTypeOK, Lock, Cloning
  <2>3. QED
    BY <1>0, <1>4, <2>1, <2>2, Zenon DEF LockChild, ProcTypeOK, local, memory
<1>5. CASE ThreadClone(p)
  <2>1. pc' \in [Pid -> PCs]
    BY <1>0, <1>5, Zenon
    DEF ThreadClone, ProcTypeOK, Goto, PCs, Cloning, Exiting, Waiting, Reaping
  <2>2. /\ p_refcount' \in [Pid -> Int]
        /\ thread' \in [Pid -> {"none", "ready", "zombie", "inactive"}]
    BY <1>0, <1>5, <1>1 DEF ThreadClone, ProcTypeOK, Cloning
  <2>3. /\ p_lock' \in [Pid -> Pid \cup {None}]
        /\ other' \in [Pid -> Pid \cup {None}]
    BY <1>0, <1>5, <1>1, Zenon DEF ThreadClone, ProcTypeOK, Lock, Unlock, Cloning
  <2>4. QED
    BY <1>0, <1>5, <2>1, <2>2, <2>3, Zenon DEF ThreadClone, ProcTypeOK, local, memory
<1>6. QED
  BY <1>2, <1>3, <1>4, <1>5, Zenon

\* ... exit ...
LEMMA TypesExit ==
  ASSUME ProcInv, NEW p \in Pid, Exits(p)
  PROVE  ProcTypeOK'
<1>0. ProcTypeOK
  BY Zenon DEF ProcInv
<1>1. ASSUME NEW status \in Status, Terminate(p, status)
      PROVE  ProcTypeOK'
  <2>1. pc' \in [Pid -> PCs]
    BY <1>0, <1>1, Zenon
    DEF Terminate, ProcTypeOK, Goto, PCs, Cloning, Exiting, Waiting, Reaping
  <2>2. p_lock' \in [Pid -> Pid \cup {None}]
    BY <1>0, <1>1, Zenon DEF Terminate, ProcTypeOK, Lock, Unlock
  <2>3. /\ p_state' \in [Pid -> {"none", "active", "zombie"}]
        /\ p_exit_status' \in [Pid -> Status \cup {None}]
    BY <1>0, <1>1, Zenon DEF Terminate, ProcTypeOK
  <2>4. QED
    BY <1>0, <1>1, <2>1, <2>2, <2>3, Zenon DEF Terminate, ProcTypeOK, local, memory
<1>2. CASE ExitThread(p)
  <2>1. pc' \in [Pid -> PCs]
    BY <1>0, <1>2, Zenon
    DEF ExitThread, ProcTypeOK, Goto, PCs, Cloning, Exiting, Waiting, Reaping
  <2>2. thread' \in [Pid -> {"none", "ready", "zombie", "inactive"}]
    BY <1>0, <1>2, Zenon DEF ExitThread, ProcTypeOK
  <2>3. QED
    BY <1>0, <1>2, <2>1, <2>2, Zenon DEF ExitThread, ProcTypeOK, local, memory
<1>3. CASE SignalExit(p)
  <2>1. pc' \in [Pid -> PCs]
    BY <1>0, <1>3, Zenon
    DEF SignalExit, ProcTypeOK, Goto, PCs, Cloning, Exiting, Waiting, Reaping
  <2>2. p_child_wait' \in [Pid -> Nat]
    BY <1>0, <1>3, CountType, Zenon DEF SignalExit, ProcTypeOK
  <2>3. QED
    BY <1>0, <1>3, <2>1, <2>2, Zenon DEF SignalExit, ProcTypeOK, local, memory
<1>4. CASE UnlockExited(p)
  <2>1. pc' \in [Pid -> PCs]
    BY <1>0, <1>4, Zenon
    DEF UnlockExited, ProcTypeOK, Goto, PCs, Cloning, Exiting, Waiting, Reaping
  <2>2. p_lock' \in [Pid -> Pid \cup {None}]
    BY <1>0, <1>4, Zenon DEF UnlockExited, ProcTypeOK, Lock, Unlock
  <2>3. QED
    BY <1>0, <1>4, <2>1, <2>2, Zenon DEF UnlockExited, ProcTypeOK, local, memory
<1>5. CASE Schedule(p)
  <2>1. pc' \in [Pid -> PCs]
    BY <1>0, <1>5, Zenon DEF Schedule, ProcTypeOK, Goto, PCs, Cloning, Exiting, Waiting, Reaping
  <2>2. thread' \in [Pid -> {"none", "ready", "zombie", "inactive"}]
    BY <1>0, <1>5, Zenon DEF Schedule, ProcTypeOK
  <2>3. QED
    BY <1>0, <1>5, <2>1, <2>2, Zenon DEF Schedule, ProcTypeOK, local, memory
<1>6. QED
  BY <1>1, <1>2, <1>3, <1>4, <1>5, Zenon DEF Exits

\* ... and waitpid.
LEMMA TypesReap ==
  ASSUME ProcInv, NEW p \in Pid,
         FoundZombie(p) \/ DestroyThread(p) \/ Reap(p) \/ DeleteProcess(p)
  PROVE  ProcTypeOK'
<1>0. ProcTypeOK
  BY Zenon DEF ProcInv
<1>1. pc[p] \in Reaping => other[p] \in Pid
  BY <1>0 DEF ProcInv, ProcTypeOK, OtherInv, WorksOn
<1>2. CASE FoundZombie(p)
  <2>1. PICK c \in Pid : c = p_children[p][next[p]] /\ c \in Children(p)
    BY <1>2, ScannedChild, Zenon DEF FoundZombie
  <2>2. Holds(p_children[p], Children(p)) /\ Children(p) \subseteq Pid
    <3>1. p_children[p] \in Seq(Pid) /\ NoDuplicates(p_children[p])
      BY <1>0, Zenon DEF ProcTypeOK, ProcInv, ChildrenInv
    <3>2. Members(p_children[p]) \subseteq Pid
      BY <3>1 DEF Members
    <3>3. QED
      BY <3>1, <3>2, HoldsMembers, Zenon DEF Children
  <2>3. Holds(Remove(p_children[p], c), Children(p) \ {c}) /\ Children(p) \ {c} \subseteq Pid
    BY <2>1, <2>2, RemoveHolds, Zenon
  <2>4. Remove(p_children[p], c) \in Seq(Pid)
    BY <2>3, HoldsType, Zenon
  <2>5. pc' \in [Pid -> PCs]
    BY <1>0, <1>2, Zenon
    DEF FoundZombie, ProcTypeOK, Goto, PCs, Cloning, Exiting, Waiting, Reaping
  <2>6. /\ p_lock' \in [Pid -> Pid \cup {None}]
        /\ other' \in [Pid -> Pid \cup {None}]
    BY <1>0, <1>2, <2>1, Zenon DEF FoundZombie, ProcTypeOK, Unlock
  <2>7. p_children' \in [Pid -> Seq(Pid)]
    BY <1>0, <1>2, <2>1, <2>4, Zenon DEF FoundZombie, ProcTypeOK
  <2>8. QED
    BY <1>0, <1>2, <2>5, <2>6, <2>7, Zenon DEF FoundZombie, ProcTypeOK, local, memory
<1>3. CASE DestroyThread(p)
  <2>1. pc' \in [Pid -> PCs]
    BY <1>0, <1>3, Zenon
    DEF DestroyThread, ProcTypeOK, Goto, PCs, Cloning, Exiting, Waiting, Reaping
  <2>2. /\ p_refcount' \in [Pid -> Int]
        /\ thread' \in [Pid -> {"none", "ready", "zombie", "inactive"}]
    BY <1>0, <1>3, CountType, Zenon DEF DestroyThread, ProcTypeOK
  <2>3. QED
    BY <1>0, <1>3, <2>1, <2>2, Zenon DEF DestroyThread, ProcTypeOK, local, memory
<1>4. CASE Reap(p)
  <2>1. PICK c \in Pid : c = other[p]
    BY <1>1, <1>4, Zenon DEF Reap, Reaping
  <2>2. \/ pc' = [pc EXCEPT ![p] = "delete"] /\ p_lock' = [p_lock EXCEPT ![c] = None]
        \/ pc' = [pc EXCEPT ![p] = "user"] /\ p_lock' = p_lock
    BY <1>4, <2>1, Zenon DEF Reap, Goto, Unlock
  <2>3. pc' \in [Pid -> PCs]
    BY <1>0, <2>2, Zenon DEF ProcTypeOK, PCs, Reaping
  <2>4. p_lock' \in [Pid -> Pid \cup {None}]
    BY <1>0, <2>2, Zenon DEF ProcTypeOK
  <2>5. p_refcount' \in [Pid -> Int]
    BY <1>0, <1>4, CountType, Zenon DEF Reap, ProcTypeOK
  <2>6. reported' \in [Pid -> (Pid \X (Status \cup {None})) \cup {None}]
    BY <1>0, <1>4, <2>1, Zenon DEF Reap, ProcTypeOK
  <2>7. QED
    BY <1>0, <1>4, <2>3, <2>4, <2>5, <2>6, Zenon DEF Reap, ProcTypeOK, local, memory
<1>5. CASE DeleteProcess(p)
  <2>1. pc' \in [Pid -> PCs]
    BY <1>0, <1>5, Zenon
    DEF DeleteProcess, ProcTypeOK, Goto, PCs, Cloning, Exiting, Waiting, Reaping
  <2>2. /\ p_state' \in [Pid -> {"none", "active", "zombie"}]
        /\ other' \in [Pid -> Pid \cup {None}]
    BY <1>0, <1>5, <1>1, Zenon DEF DeleteProcess, ProcTypeOK, Reaping
  <2>3. QED
    BY <1>0, <1>5, <2>1, <2>2, Zenon DEF DeleteProcess, ProcTypeOK, local, memory
<1>6. QED
  BY <1>2, <1>3, <1>4, <1>5, Zenon

-----------------------------------------------------------------------------
(* The lists of children and what a thread works on.                       *)

Reaps(p) == DestroyThread(p) \/ Reap(p) \/ DeleteProcess(p)

Clones(p) == LinkChild(p) \/ LockChild(p) \/ ThreadClone(p)

\* Every step is of one of these kinds.
LEMMA StepKinds ==
  ASSUME NEW p \in Pid, Continue(p) \/ SystemCall(p)
  PROVE  \/ Calls(p) \/ Exits(p) \/ Clones(p) \/ Reaps(p)
         \/ ProcessAlloc(p) \/ FoundZombie(p)
BY Zenon DEF Continue, SystemCall, Calls, Exits, Clones, Reaps

\* The list of a process holds its children.
LEMMA ChildList ==
  ASSUME ProcInv, NEW p \in Pid
  PROVE  Holds(p_children[p], Children(p)) /\ Children(p) \subseteq Pid
<1>1. p_children[p] \in Seq(Pid) /\ NoDuplicates(p_children[p])
  BY Zenon DEF ProcInv, ProcTypeOK, ChildrenInv
<1>2. Members(p_children[p]) \subseteq Pid
  BY <1>1 DEF Members
<1>3. QED
  BY <1>1, <1>2, HoldsMembers, Zenon DEF Children

\* A step that changes no list and no parent.
LEMMA ChildrenKept ==
  ASSUME ProcInv, UNCHANGED <<p_children, p_parent>>
  PROVE  ChildrenInv'
BY Zenon DEF ProcInv, ChildrenInv, Children

\* The lists of children: a child is linked once and taken off when it is found
\* dead.
LEMMA ChildrenStep ==
  ASSUME ProcInv, NEW p \in Pid, Continue(p) \/ SystemCall(p)
  PROVE  ChildrenInv'
<1> USE DEF ProcInv, ProcTypeOK
<1>1. CASE Calls(p)
  BY <1>1, CallsFacts, ChildrenKept, Zenon
<1>2. CASE Exits(p)
  BY <1>2, ExitFacts, ChildrenKept, Zenon
<1>3. CASE LockChild(p) \/ ThreadClone(p)
  <2>1. UNCHANGED <<p_children, p_parent>>
    BY <1>3, Zenon DEF LockChild, ThreadClone, Goto, memory
  <2>2. QED
    BY <2>1, ChildrenKept, Zenon
<1>4. CASE Reaps(p)
  <2>1. UNCHANGED <<p_children, p_parent>>
    <3>1. CASE DestroyThread(p)
      BY <3>1, Zenon DEF DestroyThread, Goto
    <3>2. CASE Reap(p)
      BY <3>2, Zenon DEF Reap, Goto
    <3>3. CASE DeleteProcess(p)
      BY <3>3, Zenon DEF DeleteProcess, Goto
    <3>4. QED
      BY <1>4, <3>1, <3>2, <3>3, Zenon DEF Reaps
  <2>2. QED
    BY <2>1, ChildrenKept, Zenon
<1>5. CASE ProcessAlloc(p)
  <2>1. PICK c \in Pid : /\ c = process_curpid /\ p_parent' = [p_parent EXCEPT ![c] = p]
                         /\ p_children' = p_children
    BY <1>5, Zenon DEF ProcessAlloc, Goto
  <2>2. p_parent[c] = None
    BY <2>1, NextPid, Zenon DEF Unborn
  <2>4. \A x \in Pid : Children(x)' = Children(x)
    BY <2>1, Zenon DEF Children
  <2>5. \A x \in Pid : p_parent[x] # None => p_parent'[x] = p_parent[x]
    BY <2>1, <2>2, Zenon
  <2>6. \A x \in Pid : Children(x) \subseteq Pid
    BY ChildList, Zenon
  <2>7. ASSUME NEW x \in Pid, NEW y \in Children(x)
        PROVE  y # init /\ p_parent'[y] = x
    <3>1. y \in Pid /\ y # init /\ p_parent[y] = x
      BY <2>6, <2>7, Zenon DEF ChildrenInv
    <3>2. p_parent[y] # None
      BY <3>1, PidFacts, Zenon
    <3>3. QED
      BY <2>5, <3>1, <3>2, Zenon
  <2>8. QED
    <3>1. \A x \in Pid : NoDuplicates(p_children'[x])
      BY <2>1, Zenon DEF ChildrenInv
    <3>2. ASSUME NEW x \in Pid, NEW y \in Children(x)'
          PROVE  y # init /\ p_parent'[y] = x
      <4>1. y \in Children(x)
        BY <2>4, <3>2, Zenon
      <4>2. QED
        BY <2>7, <4>1, Zenon
    <3>3. QED
      BY <3>1, <3>2, Zenon DEF ChildrenInv
<1>6. CASE LinkChild(p)
  <2>1. PICK c \in Pid : c = other[p] /\ c # init /\ p_parent[c] = p /\ Made(p, c)
    BY <1>6, MadeChild, Zenon DEF LinkChild, Cloning
  <2>2. c \notin Children(p)
    BY <1>6, <2>1, Zenon DEF Made, LinkChild
  <2>3. Holds(p_children[p], Children(p))
    BY ChildList, Zenon
  <2>4. Holds(p_children'[p], Children(p) \cup {c})
    BY <1>6, <2>1, <2>2, <2>3, AppendHolds, Zenon DEF LinkChild
  <2>5. /\ \A x \in Pid \ {p} : p_children'[x] = p_children[x]
        /\ p_parent' = p_parent
    BY <1>6, Zenon DEF LinkChild, memory
  <2>6. NoDuplicates(p_children'[p]) /\ Children(p)' = Children(p) \cup {c}
    BY <2>4, Zenon DEF Holds, Children
  <2>7. \A x \in Pid \ {p} : Children(x)' = Children(x)
    BY <2>5, Zenon DEF Children
  <2>9. QED
    <3> SUFFICES ASSUME NEW x \in Pid
                 PROVE  /\ NoDuplicates(p_children'[x])
                        /\ \A y \in Children(x)' : y # init /\ p_parent'[y] = x
      BY Zenon DEF ChildrenInv
    <3>1. CASE x = p
      BY <2>1, <2>5, <2>6, <3>1, Zenon DEF ChildrenInv
    <3>2. CASE x # p
      <4>1. /\ NoDuplicates(p_children[x])
            /\ \A y \in Children(x) : y # init /\ p_parent[y] = x
        BY Zenon DEF ChildrenInv
      <4>2. /\ p_children'[x] = p_children[x] /\ Children(x)' = Children(x)
            /\ p_parent' = p_parent
        BY <2>5, <2>7, <3>2, Zenon
      <4>3. QED
        BY <4>1, <4>2, Zenon
    <3>3. QED
      BY <3>1, <3>2, Zenon
<1>7. CASE FoundZombie(p)
  <2>1. PICK c \in Pid : c = p_children[p][next[p]] /\ c \in Children(p)
    BY <1>7, ScannedChild, Zenon DEF FoundZombie
  <2>2. Holds(p_children[p], Children(p))
    BY ChildList, Zenon
  <2>3. Holds(Remove(p_children[p], c), Children(p) \ {c})
    BY <2>1, <2>2, RemoveHolds, Zenon
  <2>4. /\ \A x \in Pid \ {p} : p_children'[x] = p_children[x]
        /\ p_children'[p] = Remove(p_children[p], c)
        /\ p_parent' = p_parent
    BY <1>7, <2>1, Zenon DEF FoundZombie, memory
  <2>5. NoDuplicates(p_children'[p]) /\ Children(p)' = Children(p) \ {c}
    BY <2>3, <2>4, Zenon DEF Holds, Children
  <2>6. \A x \in Pid \ {p} : Children(x)' = Children(x)
    BY <2>4, Zenon DEF Children
  <2>8. QED
    <3> SUFFICES ASSUME NEW x \in Pid
                 PROVE  /\ NoDuplicates(p_children'[x])
                        /\ \A y \in Children(x)' : y # init /\ p_parent'[y] = x
      BY Zenon DEF ChildrenInv
    <3>1. CASE x = p
      BY <2>4, <2>5, <3>1, Zenon DEF ChildrenInv
    <3>2. CASE x # p
      <4>1. /\ NoDuplicates(p_children[x])
            /\ \A y \in Children(x) : y # init /\ p_parent[y] = x
        BY Zenon DEF ChildrenInv
      <4>2. /\ p_children'[x] = p_children[x] /\ Children(x)' = Children(x)
            /\ p_parent' = p_parent
        BY <2>4, <2>6, <3>2, Zenon
      <4>3. QED
        BY <4>1, <4>2, Zenon
    <3>3. QED
      BY <3>1, <3>2, Zenon
<1>8. QED
  BY <1>1, <1>2, <1>3, <1>4, <1>5, <1>6, <1>7, StepKinds, Zenon DEF Clones

\* What the others work on does not change: p is alone in changing other[p], and a
\* parent does not change.
LEMMA OtherKept ==
  ASSUME ProcInv, NEW p \in Pid, WorksOn(p)',
         \A y \in Pid : p_parent[y] # None => p_parent'[y] = p_parent[y],
         \A x \in Pid \ {p} : /\ other'[x] = other[x]
                              /\ pc'[x] = pc[x] \/ (pc[x] = "none" /\ pc'[x] = "user")
  PROVE  OtherInv'
<1> SUFFICES ASSUME NEW x \in Pid, x # p
             PROVE  WorksOn(x)'
  BY Zenon DEF OtherInv
<1>1. WorksOn(x) /\ other[x] \in Pid \cup {None}
  BY Zenon DEF ProcInv, OtherInv, ProcTypeOK
<1>2. other'[x] = other[x] /\ (pc'[x] = pc[x] \/ (pc[x] = "none" /\ pc'[x] = "user"))
  BY Zenon
<1>3. pc'[x] \in Cloning \cup Reaping <=> pc[x] \in Cloning \cup Reaping
  BY <1>2, Zenon DEF Cloning, Reaping
<1>4. other[x] # None => p_parent[other[x]] = x /\ other[x] # x
  BY <1>1, Zenon DEF WorksOn
<1>5. other'[x] # None => p_parent'[other'[x]] = x /\ other'[x] # x
  BY <1>1, <1>2, <1>4, PidFacts, Zenon
<1>6. QED
  BY <1>1, <1>2, <1>3, <1>5, Zenon DEF WorksOn

\* A thread works on somebody exactly while it clones or reaps.
LEMMA OtherStep ==
  ASSUME ProcInv, NEW p \in Pid, Continue(p) \/ SystemCall(p)
  PROVE  OtherInv'
<1>0. /\ pc \in [Pid -> PCs] /\ other \in [Pid -> Pid \cup {None}] /\ WorksOn(p)
      /\ p_parent \in [Pid -> Pid \cup {None}]
  BY Zenon DEF ProcInv, ProcTypeOK, OtherInv
<1> USE DEF Goto, Cloning, Reaping, memory, local
<1>1. CASE WaitPid(p) \/ WaitLock(p) \/ LockNextChild(p) \/ SkipChild(p) \/ NoZombie(p) \/ Sleep(p)
  <2>1. /\ UNCHANGED <<other, p_parent>> /\ pc[p] \in Waiting \cup {"user"}
        /\ \E l \in Waiting : pc' = [pc EXCEPT ![p] = l]
    BY <1>1, Zenon DEF WaitPid, WaitLock, LockNextChild, SkipChild, NoZombie, Sleep, Waiting
  <2>2. WorksOn(p)'
    BY <1>0, <2>1, PidFacts, Zenon DEF WorksOn, Waiting
  <2>3. /\ \A y \in Pid : p_parent[y] # None => p_parent'[y] = p_parent[y]
        /\ \A x \in Pid \ {p} : /\ other'[x] = other[x]
                                /\ pc'[x] = pc[x] \/ (pc[x] = "none" /\ pc'[x] = "user")
    BY <1>0, <2>1, Zenon
  <2>4. QED
    BY <2>2, <2>3, OtherKept, Zenon
<1>2. CASE DeleteProcess(p)
  <2>1. /\ other' = [other EXCEPT ![p] = None] /\ pc' = [pc EXCEPT ![p] = "user"]
        /\ p_parent' = p_parent
    BY <1>2, Zenon DEF DeleteProcess
  <2>2. WorksOn(p)'
    BY <1>0, <2>1, PidFacts, Zenon DEF WorksOn
  <2>3. /\ \A y \in Pid : p_parent[y] # None => p_parent'[y] = p_parent[y]
        /\ \A x \in Pid \ {p} : /\ other'[x] = other[x]
                                /\ pc'[x] = pc[x] \/ (pc[x] = "none" /\ pc'[x] = "user")
    BY <1>0, <2>1, Zenon
  <2>4. QED
    BY <2>2, <2>3, OtherKept, Zenon
<1>3. CASE Exits(p)
  <2>1. /\ UNCHANGED <<other, p_parent>> /\ pc[p] \in {"user", "exit", "signal", "unlock", "schedule"}
        /\ \E l \in {"exit", "signal", "unlock", "schedule", "none"} : pc' = [pc EXCEPT ![p] = l]
    BY <1>3, Zenon DEF Exits, Terminate, ExitThread, SignalExit, UnlockExited, Schedule
  <2>2. WorksOn(p)'
    BY <1>0, <2>1, PidFacts, Zenon DEF WorksOn
  <2>3. /\ \A y \in Pid : p_parent[y] # None => p_parent'[y] = p_parent[y]
        /\ \A x \in Pid \ {p} : /\ other'[x] = other[x]
                                /\ pc'[x] = pc[x] \/ (pc[x] = "none" /\ pc'[x] = "user")
    BY <1>0, <2>1, Zenon
  <2>4. QED
    BY <2>2, <2>3, OtherKept, Zenon
<1>4. CASE LinkChild(p) \/ LockChild(p)
  <2>1. /\ UNCHANGED <<other, p_parent>> /\ pc[p] \in {"link", "lock"}
        /\ \E l \in {"lock", "thread"} : pc' = [pc EXCEPT ![p] = l]
    BY <1>4, Zenon DEF LinkChild, LockChild
  <2>2. WorksOn(p)'
    BY <1>0, <2>1, PidFacts, Zenon DEF WorksOn
  <2>3. /\ \A y \in Pid : p_parent[y] # None => p_parent'[y] = p_parent[y]
        /\ \A x \in Pid \ {p} : /\ other'[x] = other[x]
                                /\ pc'[x] = pc[x] \/ (pc[x] = "none" /\ pc'[x] = "user")
    BY <1>0, <2>1, Zenon
  <2>4. QED
    BY <2>2, <2>3, OtherKept, Zenon
<1>5. CASE ThreadClone(p)
  <2>1. PICK c \in Pid : c = other[p] /\ c # p /\ pc[c] = "none"
    BY <1>5, MadeChild DEF ThreadClone, Made
  <2>2. /\ other' = [other EXCEPT ![p] = None] /\ pc' = [pc EXCEPT ![p] = "user", ![c] = "user"]
        /\ p_parent' = p_parent
    BY <1>5, <2>1, Zenon DEF ThreadClone
  <2>3. WorksOn(p)'
    BY <1>0, <2>1, <2>2, PidFacts, Zenon DEF WorksOn
  <2>4. /\ \A y \in Pid : p_parent[y] # None => p_parent'[y] = p_parent[y]
        /\ \A x \in Pid \ {p} : /\ other'[x] = other[x]
                                /\ pc'[x] = pc[x] \/ (pc[x] = "none" /\ pc'[x] = "user")
    BY <1>0, <2>1, <2>2, Zenon
  <2>5. QED
    BY <2>3, <2>4, OtherKept, Zenon
<1>6. CASE ProcessAlloc(p)
  <2>1. PICK c \in Pid : c = process_curpid
    BY <1>6, Zenon DEF ProcessAlloc
  <2>2. /\ pc[p] = "user" /\ pc' = [pc EXCEPT ![p] = "link"]
        /\ other' = [other EXCEPT ![p] = c] /\ p_parent' = [p_parent EXCEPT ![c] = p]
    BY <1>6, <2>1, Zenon DEF ProcessAlloc
  <2>3. c # init /\ Unborn(c)
    BY <2>1, NextPid, Zenon
  <2>4. p_parent[c] = None /\ c # p
    BY <2>2, <2>3, Zenon DEF Unborn
  <2>5. WorksOn(p)'
    BY <1>0, <2>2, <2>4, PidFacts, Zenon DEF WorksOn
  <2>6. /\ \A y \in Pid : p_parent[y] # None => p_parent'[y] = p_parent[y]
        /\ \A x \in Pid \ {p} : /\ other'[x] = other[x]
                                /\ pc'[x] = pc[x] \/ (pc[x] = "none" /\ pc'[x] = "user")
    BY <1>0, <2>2, <2>4, Zenon
  <2>7. QED
    BY <2>5, <2>6, OtherKept, Zenon
<1>7. CASE FoundZombie(p)
  <2>1. PICK c \in Pid : c = p_children[p][next[p]] /\ c # p /\ p_parent[c] = p
    BY <1>7, ScannedChild, Zenon DEF FoundZombie
  <2>2. /\ other' = [other EXCEPT ![p] = c] /\ pc' = [pc EXCEPT ![p] = "destroy"]
        /\ p_parent' = p_parent
    BY <1>7, <2>1, Zenon DEF FoundZombie
  <2>3. WorksOn(p)'
    BY <1>0, <2>1, <2>2, PidFacts, Zenon DEF WorksOn
  <2>4. /\ \A y \in Pid : p_parent[y] # None => p_parent'[y] = p_parent[y]
        /\ \A x \in Pid \ {p} : /\ other'[x] = other[x]
                                /\ pc'[x] = pc[x] \/ (pc[x] = "none" /\ pc'[x] = "user")
    BY <1>0, <2>2, Zenon
  <2>5. QED
    BY <2>3, <2>4, OtherKept, Zenon
<1>8. CASE DestroyThread(p) \/ Reap(p)
  <2>1. pc[p] \in {"destroy", "reap"}
    BY <1>8, Zenon DEF DestroyThread, Reap
  <2>2. pc[p] = "reap" => p_refcount[other[p]] = 1
    BY <2>1, ReapedChild, Zenon DEF Reaped
  <2>3. /\ UNCHANGED <<other, p_parent>>
        /\ \E l \in {"reap", "delete"} : pc' = [pc EXCEPT ![p] = l]
    BY <1>8, <2>2, Zenon DEF DestroyThread, Reap
  <2>4. WorksOn(p)'
    BY <1>0, <2>1, <2>3, PidFacts, Zenon DEF WorksOn
  <2>5. /\ \A y \in Pid : p_parent[y] # None => p_parent'[y] = p_parent[y]
        /\ \A x \in Pid \ {p} : /\ other'[x] = other[x]
                                /\ pc'[x] = pc[x] \/ (pc[x] = "none" /\ pc'[x] = "user")
    BY <1>0, <2>3, Zenon
  <2>6. QED
    BY <2>4, <2>5, OtherKept, Zenon
<1>9. QED
  BY <1>1, <1>2, <1>3, <1>4, <1>5, <1>6, <1>7, <1>8, StepKinds, Zenon
  DEF Calls, Clones, Reaps

-----------------------------------------------------------------------------
(* Locks.                                                                  *)

\* p takes locks that are free and gives up its own: the others keep theirs.
LEMMA LocksOfOthers ==
  ASSUME ProcInv, NEW p \in Pid,
         \A y \in Pid : p_lock'[y] # p_lock[y] => p_lock[y] \in {None, p},
         \A x \in Pid \ {p} : /\ pc'[x] = pc[x] \/ pc'[x] = "user"
                              /\ next'[x] = next[x] /\ other'[x] = other[x]
                              /\ p_children'[x] = p_children[x],
         LocksOf(p)'
  PROVE  LockInv'
<1> SUFFICES ASSUME NEW x \in Pid, x # p PROVE LocksOf(x)'
  BY Zenon DEF LockInv
<1>1. CASE pc'[x] = "user"
  BY <1>1, Zenon DEF LocksOf
<1>2. CASE pc'[x] = pc[x]
  <2>1. LocksOf(x) /\ None # x /\ next'[x] = next[x] /\ other'[x] = other[x] /\ p_children'[x] = p_children[x]
    BY PidFacts, Zenon DEF ProcInv, LockInv
  <2>2. \A y \in Pid : p_lock[y] = x => p_lock'[y] = x
    BY <2>1, Zenon
  <2>3. pc[x] = "check" => p_children[x][next[x]] \in Pid
    BY ScannedChild, Zenon
  <2>4. pc[x] \in {"thread", "destroy", "reap"} => other[x] \in Pid
    BY DEF ProcInv, OtherInv, WorksOn, Cloning, Reaping, ProcTypeOK
  <2>5. QED
    BY <1>2, <2>1, <2>2, <2>3, <2>4, Zenon DEF LocksOf
<1>3. QED
  BY <1>1, <1>2, Zenon

\* Every step takes and gives up locks as LockInv says.
LEMMA LocksStep ==
  ASSUME ProcInv, NEW p \in Pid, Continue(p) \/ SystemCall(p)
  PROVE  LockInv'
<1> USE DEF ProcInv, ProcTypeOK, Goto, Lock, Unlocked, Unlock, memory, local
<1>1. LocksOf(p)
  BY Zenon DEF LockInv
<1>2. CASE WaitPid(p) \/ Sleep(p)
  <2>1. LocksOf(p)'
    <3>1. pc'[p] = "wait"
      BY <1>2, Zenon DEF WaitPid, Sleep
    <3>2. QED
      BY <3>1, Zenon DEF LocksOf
  <2>2. QED
    BY <1>2, <2>1, LocksOfOthers, Zenon DEF WaitPid, Sleep
<1>3. CASE WaitLock(p)
  <2>1. LocksOf(p)'
    BY <1>3, Zenon DEF WaitLock, LocksOf
  <2>2. QED
    BY <1>3, <2>1, LocksOfOthers, Zenon DEF WaitLock
<1>4. CASE LockNextChild(p)
  <2>0. p_children[p] \in [1 .. Len(p_children[p]) -> Pid] /\ Len(p_children[p]) \in Nat
    BY SeqFunction, Zenon
  <2>1. PICK c \in Pid : c = p_children[p][next[p]]
    <3>1. next[p] \in 1 .. Len(p_children[p])
      BY <1>4, <2>0 DEF LockNextChild
    <3>2. QED
      BY <2>0, <3>1, Zenon
  <2>2. /\ p_lock[c] = None /\ p_lock' = [p_lock EXCEPT ![c] = p]
        /\ pc[p] = "scan" /\ next[p] <= Len(p_children[p])
        /\ pc' = [pc EXCEPT ![p] = "check"] /\ UNCHANGED <<other, next, p_children>>
    BY <1>4, <2>1, Zenon DEF LockNextChild
  <2>3. LocksOf(p)'
    BY <1>1, <2>1, <2>2, Zenon DEF LocksOf
  <2>4. QED
    BY <2>2, <2>3, LocksOfOthers, Zenon
<1>5. CASE SkipChild(p)
  <2>1. PICK c \in Pid : c = p_children[p][next[p]] /\ c # p /\ p_lock[c] = p
    BY <1>5, ScannedChild, Zenon DEF SkipChild
  <2>2. /\ p_lock' = [p_lock EXCEPT ![c] = None] /\ pc[p] = "check"
        /\ pc' = [pc EXCEPT ![p] = "scan"] /\ UNCHANGED <<other, p_children>>
        /\ \A x \in Pid \ {p} : next'[x] = next[x]
    BY <1>5, <2>1, Zenon DEF SkipChild
  <2>3. LocksOf(p)'
    BY <1>1, <2>1, <2>2, Zenon DEF LocksOf
  <2>4. QED
    BY <2>1, <2>2, <2>3, LocksOfOthers, Zenon
<1>6. CASE NoZombie(p) \/ UnlockExited(p)
  <2>1. /\ p_lock[p] = p /\ p_lock' = [p_lock EXCEPT ![p] = None]
        /\ \A x \in Pid \ {p} : pc'[x] = pc[x]
        /\ pc'[p] \in {"sleep", "schedule"} /\ UNCHANGED <<other, next, p_children>>
    BY <1>1, <1>6 DEF NoZombie, UnlockExited, LocksOf
  <2>2. LocksOf(p)'
    BY <2>1, Zenon DEF LocksOf
  <2>3. QED
    BY <2>1, <2>2, LocksOfOthers, Zenon
<1>7. CASE \E status \in Status : Terminate(p, status)
  <2>1. LocksOf(p)'
    BY <1>7 DEF Terminate, LocksOf
  <2>2. QED
    BY <1>7, <2>1, LocksOfOthers, Zenon DEF Terminate
<1>8. CASE ExitThread(p) \/ SignalExit(p) \/ Schedule(p)
  <2>1. LocksOf(p)'
    <3>1. /\ pc'[p] \in {"signal", "unlock", "none"} /\ p_lock' = p_lock
          /\ pc'[p] # "none" => pc[p] \in {"exit", "signal"}
      BY <1>8, Zenon DEF ExitThread, SignalExit, Schedule
    <3>2. QED
      BY <1>1, <3>1, Zenon DEF LocksOf
  <2>2. QED
    BY <1>8, <2>1, LocksOfOthers, Zenon DEF ExitThread, SignalExit, Schedule
<1>9. CASE ProcessAlloc(p) \/ LinkChild(p)
  <2>1. LocksOf(p)'
    <3>1. pc'[p] \in {"link", "lock"}
      BY <1>9, Zenon DEF ProcessAlloc, LinkChild
    <3>2. QED
      BY <3>1, Zenon DEF LocksOf
  <2>2. QED
    BY <1>9, <2>1, LocksOfOthers, Zenon DEF ProcessAlloc, LinkChild
<1>10. CASE LockChild(p)
  <2>1. PICK c \in Pid : c = other[p]
    BY <1>10, MadeChild, Zenon DEF LockChild, Cloning
  <2>2. LocksOf(p)'
    BY <1>10, <2>1, Zenon DEF LockChild, LocksOf
  <2>3. QED
    BY <1>10, <2>2, LocksOfOthers, Zenon DEF LockChild
<1>11. CASE ThreadClone(p)
  <2>1. PICK c \in Pid : c = other[p] /\ p_lock[c] = p
    BY <1>1, <1>11, MadeChild, Zenon DEF ThreadClone, Cloning, LocksOf
  <2>2. LocksOf(p)'
    BY <1>11, <2>1, Zenon DEF ThreadClone, LocksOf
  <2>3. QED
    BY <1>11, <2>1, <2>2, LocksOfOthers, Zenon DEF ThreadClone
<1>12. CASE FoundZombie(p)
  <2>1. PICK c \in Pid : c = p_children[p][next[p]] /\ c # p /\ p_lock[c] = p
    BY <1>12, ScannedChild, Zenon DEF FoundZombie
  <2>2. /\ p_lock[p] = p /\ p_lock' = [p_lock EXCEPT ![p] = None]
        /\ pc' = [pc EXCEPT ![p] = "destroy"] /\ other' = [other EXCEPT ![p] = c]
        /\ next' = next /\ \A x \in Pid \ {p} : p_children'[x] = p_children[x]
    BY <1>1, <1>12, <2>1, Zenon DEF FoundZombie, LocksOf
  <2>3. LocksOf(p)'
    BY <2>1, <2>2, Zenon DEF LocksOf
  <2>4. QED
    BY <2>2, <2>3, LocksOfOthers, Zenon
<1>13. CASE DestroyThread(p) \/ DeleteProcess(p)
  <2>1. LocksOf(p)'
    <3>1. /\ p_lock' = p_lock /\ other'[p] \in {other[p], None}
          /\ \/ pc'[p] = "user"
             \/ pc'[p] = "reap" /\ pc[p] = "destroy" /\ other'[p] = other[p]
      BY <1>13, Zenon DEF DestroyThread, DeleteProcess
    <3>2. QED
      BY <1>1, <3>1, Zenon DEF LocksOf
  <2>2. QED
    BY <1>13, <2>1, LocksOfOthers, Zenon DEF DestroyThread, DeleteProcess
<1>14. CASE Reap(p)
  <2>1. PICK c \in Pid : c = other[p] /\ p_lock[c] = p
    <3>1. pc[p] = "reap" /\ other[p] # None /\ p_lock[other[p]] = p
      BY <1>1, <1>14, Zenon DEF Reap, OtherInv, WorksOn, Reaping, LocksOf
    <3>2. QED
      BY <3>1, Zenon
  <2>2. LocksOf(p)'
    <3>1. pc'[p] \in {"delete", "user"}
      BY <1>14, Zenon DEF Reap
    <3>2. QED
      BY <3>1, Zenon DEF LocksOf
  <2>3. QED
    BY <1>14, <2>1, <2>2, LocksOfOthers, Zenon DEF Reap
<1>15. QED
  BY <1>2, <1>3, <1>4, <1>5, <1>6, <1>7, <1>8, <1>9, <1>10, <1>11, <1>12, <1>13, <1>14, StepKinds, Zenon
  DEF Calls, Exits, Clones, Reaps

-----------------------------------------------------------------------------
(* Theorems.                                                               *)

\* ProcInv holds at first ...
LEMMA ProcInit ==
  ASSUME Init
  PROVE  ProcInv
<1> USE DEF Init
<1>1. ProcTypeOK
  <2>1. MaxPid \in Nat /\ <<>> \in Seq(Pid)
    BY ProcessAssumption
  <2>2. QED
    BY <2>1, PidFacts DEF ProcTypeOK, PCs, init
<1>2. \A p \in Pid : Children(p) = {} /\ NoDuplicates(p_children[p])
  BY DEF Children, Members, NoDuplicates
<1>3. LifeInv
  <2>1. ASSUME NEW c \in Pid \ {init} PROVE c >= process_curpid /\ Unborn(c)
    BY DEF Pid, init, Unborn
  <2>2. QED
    BY <2>1, PidFacts, Zenon DEF LifeInv, Live, Exiting
<1>4. ChildrenInv
  BY <1>2, Zenon DEF ChildrenInv
<1>5. OtherInv /\ LockInv
  BY PidFacts, Zenon DEF OtherInv, WorksOn, LockInv, LocksOf, Cloning, Reaping
<1>6. QED
  BY <1>1, <1>3, <1>4, <1>5, Zenon DEF ProcInv

\* ... and every step of clone, exit and waitpid preserves it.
THEOREM ProcInvariance ==
  Spec => []ProcInv
<1>1. Init => ProcInv
  BY ProcInit, Zenon
<1>2. ProcInv /\ [Next]_vars => ProcInv'
  <2>1. ASSUME ProcInv, NEW p \in Pid, Continue(p) \/ SystemCall(p)
        PROVE  ProcInv'
    <3>1. ProcTypeOK'
      BY <2>1, StepKinds, TypesCalls, TypesClone, TypesExit, TypesReap, Zenon DEF Clones, Reaps
    <3>2. LifeInv'
      BY <2>1, StepKinds, LifeCalls, LifeClone, LifeAlloc, LifeExit, LifeFound, LifeReap, Zenon
      DEF Clones, Reaps
    <3>3. ChildrenInv' /\ OtherInv' /\ LockInv'
      BY <2>1, ChildrenStep, OtherStep, LocksStep, Zenon
    <3>4. QED
      BY <3>1, <3>2, <3>3, Zenon DEF ProcInv
  <2>2. ASSUME ProcInv, UNCHANGED vars
        PROVE  ProcInv'
    <3> USE <2>2 DEF ProcInv, vars, local, memory
    <3>1. ProcTypeOK'
      BY Zenon DEF ProcTypeOK
    <3>2. LifeInv'
      BY DEF LifeInv, Live, Unborn, LifeOf, Made, Runs, Exited, Reaped, Buried, Gone, Children
    <3>3. ChildrenInv' /\ OtherInv'
      BY Zenon DEF ChildrenInv, Children, Live, OtherInv, WorksOn
    <3>4. LockInv'
      BY Zenon DEF LockInv, LocksOf
    <3>5. QED
      BY <3>1, <3>2, <3>3, <3>4, Zenon
  <2>3. QED
    BY <2>1, <2>2, Zenon DEF Next
<1>3. QED
  BY <1>1, <1>2, PTL DEF Spec

\* A process with a thread exists, has its thread and two references.
LEMMA OwnObjects ==
  ASSUME ProcInv, NEW p \in Pid, pc[p] # "none"
  PROVE  p_state[p] # "none" /\ thread[p] # "none" /\ p_refcount[p] = 2
<1>1. CASE p = init
  BY <1>1, Zenon DEF ProcInv, LifeInv
<1>2. CASE p # init
  BY <1>2, OwnLife, Zenon DEF Runs, Exited
<1>3. QED
  BY <1>1, <1>2, Zenon

\* The Process and Thread objects exist that a thread uses in clone, exit and
\* waitpid: its own and those of its children.  The one pointer that is left out,
\* p_parent in SignalExit, is that of ParentsExist.
THEOREM NothingUsedAfterFree ==
  Spec => []NoUseAfterFree
<1>1. ProcInv => NoUseAfterFree
  <2> SUFFICES ASSUME ProcInv, NEW p \in Pid, pc[p] # "none"
               PROVE  /\ p_state[p] # "none" /\ thread[p] # "none"
                      /\ other[p] # None => p_state[other[p]] # "none"
                      /\ \A c \in Children(p) : p_state[c] # "none"
    BY Zenon DEF NoUseAfterFree
  <2>1. p_state[p] # "none" /\ thread[p] # "none"
    BY OwnObjects, Zenon
  <2>2. ASSUME other[p] # None PROVE p_state[other[p]] # "none"
    <3>1. pc[p] \in Cloning \cup Reaping
      BY <2>2, Zenon DEF ProcInv, OtherInv, WorksOn
    <3>2. CASE pc[p] \in Cloning
      BY <3>2, MadeChild, Zenon DEF Made
    <3>3. CASE pc[p] \in Reaping
      BY <3>3, ReapedChild, Zenon DEF Reaping, Exited, Reaped, Buried
    <3>4. QED
      BY <3>1, <3>2, <3>3, Zenon
  <2>3. ASSUME NEW c \in Children(p) PROVE p_state[c] # "none"
    <3>1. c \in Pid /\ c # init /\ p_parent[c] = p
      BY <2>3, ChildList, Zenon DEF ProcInv, ChildrenInv
    <3>2. LifeOf(p, c)
      BY <3>1, PidFacts, Zenon DEF ProcInv, LifeInv, Unborn
    <3>3. QED
      BY <3>2, Zenon DEF LifeOf, Made, Runs, Exited, Reaped, Buried, Gone
  <2>4. QED
    BY <2>1, <2>2, <2>3, Zenon
<1>2. QED
  BY <1>1, ProcInvariance, PTL

-----------------------------------------------------------------------------
\* A process that has children has not begun to exit, when programs wait for
\* their children: it gets a child while it runs, and exits when it has none.
LEMMA ParentsWaitStep ==
  ASSUME ~Orphans, ProcInv, ParentsWait, NEW p \in Pid, Continue(p) \/ SystemCall(p)
  PROVE  ParentsWait'
<1> USE DEF ProcInv, ProcTypeOK
<1>1. \A x \in Pid : Live(x)' \/ p_children'[x] = <<>> \/ (x # p /\ pc'[x] = pc[x])
  <2>1. CASE Calls(p)
    BY <2>1, CallsFacts, Zenon DEF Live, Exiting, Waiting
  <2>2. CASE Exits(p)
    <3>1. p_children[p] = <<>>
      <4>1. CASE Orphans \/ p_children[p] = <<>>
        BY <4>1, Zenon
      <4>2. CASE pc[p] \in Exiting
        BY <4>2, Zenon DEF ParentsWait, Live
      <4>3. QED
        BY <2>2, <4>1, <4>2, Zenon
        DEF Exits, ExitThread, SignalExit, UnlockExited, Schedule, Exiting
    <3>2. p_children' = p_children /\ \A x \in Pid \ {p} : pc'[x] = pc[x]
      BY <2>2, ExitFacts, Zenon
    <3>3. QED
      BY <3>1, <3>2, Zenon
  <2>3. CASE Clones(p) \/ ProcessAlloc(p)
    <3>1. \A x \in Pid : (x # p /\ pc'[x] = pc[x]) \/ pc'[x] \in {"link", "lock", "thread", "user"}
      BY <2>3, Zenon DEF Clones, ProcessAlloc, LinkChild, LockChild, ThreadClone, Goto
    <3>2. QED
      BY <3>1, Zenon DEF Live, Exiting
  <2>4. CASE Reaps(p) \/ FoundZombie(p)
    <3>1. \A x \in Pid : \/ x # p /\ pc'[x] = pc[x]
                         \/ pc'[x] \in {"destroy", "reap", "delete", "user"}
      BY <2>4, Zenon DEF Reaps, FoundZombie, DestroyThread, Reap, DeleteProcess, Goto
    <3>2. QED
      BY <3>1, Zenon DEF Live, Exiting
  <2>5. QED
    BY <2>1, <2>2, <2>3, <2>4, StepKinds, Zenon
<1>2. \A x \in Pid \ {p} : p_children'[x] = p_children[x]
  <2>1. CASE LinkChild(p) \/ FoundZombie(p)
    BY <2>1, Zenon DEF LinkChild, FoundZombie
  <2>2. CASE ~(LinkChild(p) \/ FoundZombie(p))
    BY <2>2, StepKinds, CallsFacts, ExitFacts, Zenon
    DEF Clones, Reaps, ProcessAlloc, LockChild, ThreadClone, DestroyThread, Reap,
        DeleteProcess, memory
  <2>3. QED
    BY <2>1, <2>2, Zenon
<1>3. QED
  BY <1>1, <1>2, Zenon DEF ParentsWait, Live

\* A thread that exits signals a parent that exists, when programs wait for their
\* children before they exit.
THEOREM ParentsExist ==
  ASSUME ~Orphans
  PROVE  Spec => []ParentExists
<1>1. Init => ParentsWait
  BY Zenon DEF Init, ParentsWait
<1>2. ProcInv /\ ParentsWait /\ [Next]_vars => ParentsWait'
  <2>1. ASSUME ParentsWait, UNCHANGED vars PROVE ParentsWait'
    BY <2>1, Zenon DEF ParentsWait, Live, vars, local, memory
  <2>2. QED
    BY <2>1, ParentsWaitStep, Zenon DEF Next
<1>3. ProcInv /\ ParentsWait => ParentExists
  <2> SUFFICES ASSUME ProcInv, ParentsWait, NEW p \in Pid, pc[p] # "none"
               PROVE  p_state[p_parent[p]] # "none"
    BY Zenon DEF ParentExists
  <2>1. CASE p = init
    BY <2>1, Zenon DEF ProcInv, LifeInv
  <2>2. CASE p # init
    <3>1. PICK q \in Pid : q = p_parent[p] /\ (Runs(q, p) \/ Exited(q, p))
      BY <2>2, OwnLife, Zenon
    <3>2. p \in Children(q) \/ pc[q] = "destroy"
      BY <3>1, Zenon DEF Runs, Exited
    <3>3. p \in Children(q) => p_children[q] # <<>>
      BY DEF Children, Members
    <3>4. pc[q] # "none"
      BY <3>2, <3>3, Zenon DEF ParentsWait, Live
    <3>5. QED
      BY <3>1, <3>4, OwnObjects, Zenon
  <2>3. QED
    BY <2>1, <2>2, Zenon
<1>4. QED
  BY <1>1, <1>2, <1>3, ProcInvariance, PTL DEF Spec

\* The assertions of WaitAndLock hold: a process that is found to be a zombie has
\* its thread, which is a zombie or has left its processor.
THEOREM ZombiesHaveThreads ==
  Spec => []ZombieHasZombieThread
<1>1. ProcInv => ZombieHasZombieThread
  <2> SUFFICES ASSUME ProcInv, NEW p \in Pid, pc[p] = "destroy"
               PROVE  thread[other[p]] \in {"zombie", "inactive"}
    BY Zenon DEF ZombieHasZombieThread
  <2>1. Exited(p, other[p])
    BY ReapedChild, Zenon DEF Reaping
  <2>2. QED
    BY <2>1, Zenon DEF Exited
<1>2. QED
  BY <1>1, ProcInvariance, PTL

\* waitpid gives up the last reference to the process it reaps, and a process with
\* a thread has references.
THEOREM WaitDestroys ==
  Spec => []ReapDestroys
<1>1. ProcInv => ReapDestroys
  <2> SUFFICES ASSUME ProcInv, NEW p \in Pid
               PROVE  /\ pc[p] = "reap" => p_refcount[other[p]] = 1
                      /\ pc[p] # "none" => p_refcount[p] > 0
    BY Zenon DEF ReapDestroys
  <2>1. QED
    BY OwnObjects, ReapedChild DEF Reaping, Reaped
<1>2. QED
  BY <1>1, ProcInvariance, PTL

\* A process whose thread has not begun to exit runs in AbstractProcess.
LEMMA RunsAbstractly ==
  ASSUME ProcInv, NEW p \in Pid, Live(p)
  PROVE  Abstract!Running(p)
<1>1. CASE p = init
  BY <1>1, Zenon DEF ProcInv, LifeInv, Abstract!Running
<1>2. CASE p # init
  <2>1. p_parent[p] \in Pid /\ (Runs(p_parent[p], p) \/ Exited(p_parent[p], p))
    BY <1>2, OwnLife, Zenon DEF Live
  <2>2. p_exit_status[p] = None
    BY <2>1, Zenon DEF Runs, Exited, Live, Exiting
  <2>3. QED
    BY <1>2, <2>1, <2>2, PidFacts, Zenon DEF Abstract!Running
<1>3. QED
  BY <1>1, <1>2, Zenon

\* Clone, exit and waitpid implement AbstractProcess: every exit is reported once,
\* to the parent, with the status of the exit.
THEOREM ProcessesImplement ==
  Spec => ImplementsAbstractProcess
<1>1. Init => Abstract!Init
  BY DEF Init, Abstract!Init
<1>2. ProcInv /\ [Next]_vars => [Abstract!Next]_(Abstract!vars)
  <2> SUFFICES ASSUME ProcInv, NEW p \in Pid, Continue(p) \/ SystemCall(p)
               PROVE  Abstract!Next \/ UNCHANGED Abstract!vars
    BY Zenon DEF Next, vars, memory, Abstract!vars
  <2> USE DEF ProcInv, ProcTypeOK
  <2>1. CASE UNCHANGED <<p_parent, p_exit_status, reported>>
    BY <2>1, Zenon DEF Abstract!vars
  <2>2. CASE ProcessAlloc(p)
    <3>1. PICK c \in Pid : c = process_curpid /\ p_parent' = [p_parent EXCEPT ![c] = p]
      BY <2>2, Zenon DEF ProcessAlloc
    <3>2. c # init /\ p_parent[c] = None
      BY <3>1, NextPid, Zenon DEF Unborn
    <3>3. Abstract!Running(p)
      BY <2>2, RunsAbstractly, Zenon DEF ProcessAlloc, Live, Exiting
    <3>4. Abstract!Fork(p, c)
      <4>1. [x \in Pid |-> IF x = init THEN None ELSE p_parent'[x]]
              = [[x \in Pid |-> IF x = init THEN None ELSE p_parent[x]] EXCEPT ![c] = p]
        BY <3>1, <3>2, Zenon
      <4>2. UNCHANGED <<p_exit_status, reported>>
        BY <2>2, Zenon DEF ProcessAlloc
      <4>3. QED
        BY <3>2, <3>3, <4>1, <4>2, Zenon DEF Abstract!Fork
    <3>5. QED
      BY <3>4, Zenon DEF Abstract!Next
  <2>3. ASSUME NEW s \in Status, Terminate(p, s) PROVE Abstract!Next
    <3>1. Abstract!Running(p) /\ p # init
      BY <2>3, RunsAbstractly, Zenon DEF Terminate, Live, Exiting
    <3>2. Abstract!Exit(p, s)
      BY <2>3, <3>1, Zenon DEF Terminate, Abstract!Exit
    <3>3. QED
      BY <3>2, Zenon DEF Abstract!Next
  <2>4. CASE Reap(p)
    <3>1. pc[p] = "reap"
      BY <2>4, Zenon DEF Reap
    <3>2. PICK c \in Pid : c = other[p] /\ c # init /\ p_parent[c] = p /\ Reaped(p, c)
      BY <3>1, ReapedChild, Zenon DEF Reaping
    <3>3. Abstract!Running(p)
      BY <3>1, RunsAbstractly, Zenon DEF Live, Exiting
    <3>4. Abstract!Wait(p, c)
      BY <2>4, <3>2, <3>3, Zenon DEF Reap, Reaped, Abstract!Wait
    <3>5. QED
      BY <3>4, Zenon DEF Abstract!Next
  <2>5. QED
    BY <2>1, <2>2, <2>3, <2>4, Zenon
    DEF Continue, SystemCall, LinkChild, LockChild, ThreadClone, ExitThread,
       SignalExit, UnlockExited, Schedule, WaitLock, LockNextChild, SkipChild, FoundZombie, NoZombie,
       Sleep, DestroyThread, DeleteProcess, WaitPid, memory
<1>3. QED
  BY <1>1, <1>2, ProcInvariance, PTL DEF Spec, ImplementsAbstractProcess, Abstract!Spec
=============================================================================
