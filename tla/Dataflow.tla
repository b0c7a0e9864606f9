------------------------------ MODULE Dataflow ------------------------------
(***************************************************************************)
(* The MAL dataflow scheduler (mal_dataflow.c): a pool of generic workers, *)
(* one more worker for each running block, the shared queue todo of        *)
(* runnable instructions, and the scheduler of each block, which waits for *)
(* finished instructions and wakes the ones that depend on them.           *)
(*                                                                         *)
(* An action is one critical section of the code (or the thread-local work *)
(* between two of them).  q_enqueue on todo is one step: its sema_up never *)
(* blocks and only enables others, so it commutes to the append.  On a     *)
(* flow's done queue the append and the sema_up stay apart, because the    *)
(* scheduler frees that queue.                                             *)
(*                                                                         *)
(* The pool is the one DFLOWinitialize created: monetdb_startup runs a     *)
(* query of its own before any client can connect.                         *)
(***************************************************************************)
EXTENDS Integers, Sequences, FiniteSets

CONSTANTS
    Threads,     \* THREADS: the worker slots are 1..Threads
    Limit,       \* GDKnr_threads - 1: the generic workers in the pool
    Clients,     \* the sessions
    NoClient,    \* cntxt == NULL
    Flows,       \* the calls of runMALdataflow in a behaviour
    ClientOf,    \* ClientOf[f]: the cntxt argument of the call
    Host,        \* Host[f]: the item <<g, n>> whose execution makes the
                 \* recursive call f, or NoItem for a call by the session
    Deep,        \* the calls by a session at stk->calldepth > 1
    Start,       \* Start[f]: startpc of the block
    Wakeup,      \* Wakeup[f][n]: flow->nodes/edges of the block, see DataflowGraph
    NoItem,      \* a null FlowEvent
    MayFail,     \* whether allocations and thread creation can fail
    Big,         \* the calls whose instructions may run forever
    Claims,      \* the instructions with arguments that claim memory
    Faulty       \* the instructions that may raise an error of their own

Slots == 1..Threads
Instrs(f) == 1..Len(Wakeup[f])

\* A FlowEvent: instruction n of the block of f.
Items == UNION {{f} \X Instrs(f) : f \in Flows}

\* A counter that forgets that an instruction may use a variable twice.
DistinctInitialBlocks(f, n) ==
    Cardinality({p \in Instrs(f) : \E e \in 1..Len(Wakeup[f][p]) : Wakeup[f][p][e] = n})

\* flow->status[n].blocks as DFLOWinitBlk leaves it: one for each edge to n.
InitialBlocks(f, n) ==
    Cardinality({e \in UNION {{p} \X (1..Len(Wakeup[f][p])) : p \in Instrs(f)} :
                    Wakeup[f][e[1]][e[2]] = n})

ASSUME ThreadsAssumption == Threads \in Nat /\ Limit \in 1..Threads
ASSUME NoClientAssumption == NoClient \notin Clients
ASSUME ClientOfAssumption == ClientOf \in [Flows -> Clients]
ASSUME StartAssumption == Start \in [Flows -> Nat]
ASSUME WakeupAssumption ==
    \A f \in Flows : /\ Wakeup[f] \in Seq(Seq(Nat))
                     /\ \A p \in Instrs(f) : \A e \in 1..Len(Wakeup[f][p]) :
                           Wakeup[f][p][e] \in (p + 1)..Len(Wakeup[f])
ASSUME HostAssumption == Host \in [Flows -> Items \cup {NoItem}]
ASSUME CallsAssumption == Deep \subseteq Flows /\ Big \subseteq Flows
ASSUME InstructionsAssumption == {Claims, Faulty} \subseteq SUBSET Items
ASSUME NoItemAssumption == NoItem \notin Items
ASSUME MayFailAssumption == MayFail \in BOOLEAN

VARIABLES
    flag,        \* workers[i].flag
    cntxt,       \* workers[i].cntxt
    wsema,       \* workers[i].s
    wpc,         \* where the thread in slot i is, "none" without a thread
    client,      \* the worker's local copy of cntxt
    fe, fnxt,    \* the worker's locals
    todo,        \* todo->data[0 .. last-1]
    tsema,       \* todo->s
    exitcount,   \* todo->exitcount
    exiting,     \* the global flag
    stop,        \* the slot stopMALdataflow looks at: 0 before, Threads + 1 after
    fpc,         \* where the call f of runMALdataflow is
    slot,        \* its i: the slot of the worker it created
    work,        \* instructions the current loop of the scheduler has left
    tasks,       \* its count of finished instructions
    state,       \* flow->status[n].state
    blocks,      \* flow->status[n].blocks
    error,       \* flow->error # NULL
    done,        \* flow->done->data
    dsema,       \* flow->done->s
    stk,         \* the results of the instructions on the MAL stack
    ret          \* what the call answered

poolVars  == <<flag, cntxt, wsema>>
localVars == <<wpc, client, fe, fnxt>>
queueVars == <<todo, tsema, exitcount>>
stopVars  == <<exiting, stop>>
callVars  == <<fpc, slot, work, tasks, ret>>
flowVars  == <<state, blocks, error>>
doneVars  == <<done, dsema>>
vars == <<poolVars, localVars, queueVars, stopVars, callVars, flowVars, doneVars, stk>>

Init ==
    /\ flag = [i \in Slots |-> IF i <= Limit THEN "RUNNING" ELSE "IDLE"]
    /\ cntxt = [i \in Slots |-> NoClient]
    /\ wsema = [i \in Slots |-> 0]
    /\ wpc = [i \in Slots |-> IF i <= Limit THEN "start" ELSE "none"]
    /\ client = [i \in Slots |-> NoClient]
    /\ fe = [i \in Slots |-> NoItem]
    /\ fnxt = [i \in Slots |-> NoItem]
    /\ todo = <<>>
    /\ tsema = 0
    /\ exitcount = 0
    /\ exiting = FALSE
    /\ stop = 0
    /\ fpc = [f \in Flows |-> "idle"]
    /\ slot = [f \in Flows |-> 0]
    /\ work = [f \in Flows |-> <<>>]
    /\ tasks = [f \in Flows |-> 0]
    /\ state = [f \in Flows |-> [n \in Instrs(f) |-> "pending"]]
    /\ blocks = [f \in Flows |-> [n \in Instrs(f) |-> 0]]
    /\ error = [f \in Flows |-> FALSE]
    /\ done = [f \in Flows |-> <<>>]
    /\ dsema = [f \in Flows |-> 0]
    /\ stk = [f \in Flows |-> [n \in Instrs(f) |-> "none"]]
    /\ ret = [f \in Flows |-> "none"]

\* The scheduler of f holds flow->flowlock across these loops; every other
\* critical section under that lock is a single step.
FlowLocked(f) == fpc[f] \in {"seed", "walk"}

----------------------------------------------------------------------------
(***************************************************************************)
(* DFLOWworker                                                             *)
(***************************************************************************)

\* Reads its specificity; a specific worker first waits to be let loose.
WorkerStart(i) ==
    /\ wpc[i] = "start"
    /\ client' = [client EXCEPT ![i] = cntxt[i]]
    /\ wpc' = [wpc EXCEPT ![i] = IF cntxt[i] # NoClient THEN "wait" ELSE "fetch"]
    /\ UNCHANGED <<poolVars, fe, fnxt, queueVars, stopVars, callVars, flowVars, doneVars, stk>>

\* A worker that does not wait for the permit.
NoWait(i) ==
    /\ wpc[i] = "wait"
    /\ wsema' = [wsema EXCEPT ![i] = @ - 1]
    /\ wpc' = [wpc EXCEPT ![i] = "fetch"]
    /\ UNCHANGED <<flag, cntxt, client, fe, fnxt, queueVars, stopVars, callVars, flowVars, doneVars, stk>>

\* MT_sema_down(&t->s): the scheduler posts it when it has queued its block.
WorkerWait(i) ==
    /\ wpc[i] = "wait"
    /\ wsema[i] > 0
    /\ wsema' = [wsema EXCEPT ![i] = @ - 1]
    /\ wpc' = [wpc EXCEPT ![i] = "fetch"]
    /\ UNCHANGED <<flag, cntxt, client, fe, fnxt, queueVars, stopVars, callVars, flowVars, doneVars, stk>>

\* Top of the loop: the specificity may have been taken away meanwhile.
WorkerFetch(i) ==
    /\ wpc[i] = "fetch"
    /\ client' = [client EXCEPT ![i] = cntxt[i]]
    /\ wpc' = [wpc EXCEPT ![i] = "down"]
    /\ UNCHANGED <<poolVars, fe, fnxt, queueVars, stopVars, callVars, flowVars, doneVars, stk>>

\* q_dequeue(todo, cntxt): the semaphore and the test of exiting.
WorkerDown(i) ==
    /\ wpc[i] = "down"
    /\ tsema > 0
    /\ tsema' = tsema - 1
    /\ wpc' = [wpc EXCEPT ![i] = IF ~exiting THEN "locked"
                                 ELSE IF client[i] # NoClient THEN "compensate"
                                 ELSE "exit"]
    /\ UNCHANGED <<poolVars, client, fe, fnxt, todo, exitcount, stopVars, callVars, flowVars, doneVars, stk>>

\* The positions in todo of the instructions of client c, and the one
\* q_dequeue takes: the lowest pc, the last queued among equals.
PositionsOf(c) == {k \in 1..Len(todo) : ClientOf[todo[k][1]] = c}
PcAt(k) == Start[todo[k][1]] + todo[k][2]
IsPick(k, c) ==
    /\ k \in PositionsOf(c)
    /\ \A j \in PositionsOf(c) : \/ PcAt(k) < PcAt(j)
                                 \/ PcAt(k) = PcAt(j) /\ j <= k

\* q_dequeue for a specific worker: an instruction of its own client.
TakeSpecific(i) ==
    /\ wpc[i] = "locked"
    /\ client[i] # NoClient
    /\ \/ \E k \in 1..Len(todo) :
            /\ IsPick(k, client[i])
            /\ fe' = [fe EXCEPT ![i] = todo[k]]
            /\ todo' = [j \in 1..(Len(todo) - 1) |-> IF j < k THEN todo[j] ELSE todo[j + 1]]
            /\ wpc' = [wpc EXCEPT ![i] = "got"]
       \/ /\ PositionsOf(client[i]) = {}
          /\ wpc' = [wpc EXCEPT ![i] = "compensate"]
          /\ UNCHANGED <<fe, todo>>
    /\ UNCHANGED <<poolVars, client, fnxt, tsema, exitcount, stopVars, callVars, flowVars, doneVars, stk>>

\* A worker that does not compensate for the permit it took.
KeepPermit(i) ==
    /\ wpc[i] = "compensate"
    /\ wpc' = [wpc EXCEPT ![i] = "fetch"]
    /\ UNCHANGED <<poolVars, client, fe, fnxt, queueVars, stopVars, callVars, flowVars, doneVars, stk>>

\* Nothing for the client: give the permit back and try again.
WorkerCompensate(i) ==
    /\ wpc[i] = "compensate"
    /\ tsema' = tsema + 1
    /\ wpc' = [wpc EXCEPT ![i] = "fetch"]
    /\ UNCHANGED <<poolVars, client, fe, fnxt, todo, exitcount, stopVars, callVars, flowVars, doneVars, stk>>

\* q_dequeue for a generic worker: a request to exit goes first, else the
\* last instruction queued.  On an empty queue the assertion fails and the
\* worker gets no further.
TakeGeneric(i) ==
    /\ wpc[i] = "locked"
    /\ client[i] = NoClient
    /\ \/ /\ exitcount > 0
          /\ exitcount' = exitcount - 1
          /\ wpc' = [wpc EXCEPT ![i] = "exit"]
          /\ UNCHANGED <<todo, fe>>
       \/ /\ exitcount = 0
          /\ Len(todo) > 0
          /\ fe' = [fe EXCEPT ![i] = todo[Len(todo)]]
          /\ todo' = SubSeq(todo, 1, Len(todo) - 1)
          /\ wpc' = [wpc EXCEPT ![i] = "got"]
          /\ UNCHANGED exitcount
    /\ UNCHANGED <<poolVars, client, fnxt, tsema, stopVars, callVars, flowVars, doneVars, stk>>

\* After an error in the block its instructions are only passed on.
NeverSkips(f) == FALSE
Skips(f) == error[f]

\* An instruction at hand.
WorkerCheck(i) ==
    /\ wpc[i] = "got"
    /\ ~FlowLocked(fe[i][1])
    /\ wpc' = [wpc EXCEPT ![i] = IF exiting THEN "exit"
                                 ELSE IF Skips(fe[i][1]) THEN "enqueue"
                                 ELSE "admit"]
    /\ UNCHANGED <<poolVars, client, fe, fnxt, queueVars, stopVars, callVars, flowVars, doneVars, stk>>

\* MALadmission.  An instruction without a claim is admitted, and so is any
\* when no claim is out; a claim is out only while a worker executes an
\* instruction that has one.  Whether the pool then has room for another, and
\* whether more than two threads run at all, is left open.
Admit(i) ==
    /\ wpc[i] = "admit"
    /\ wpc' = [wpc EXCEPT ![i] = "run"]
    /\ UNCHANGED <<poolVars, client, fe, fnxt, queueVars, stopVars, callVars, flowVars, doneVars, stk>>

ClaimsOut == \E j \in Slots : wpc[j] = "run" /\ fe[j] \in Claims
Refused(i) == wpc[i] = "admit" /\ fe[i] \in Claims /\ ClaimsOut

\* q_requeue: an instruction that is refused goes to the front of todo, from
\* where a generic worker takes it last.
NoRequeue(i) == UNCHANGED <<todo, tsema>>   \* mutant: it is forgotten
PutBack(i) == todo' = <<fe[i]>> \o todo /\ tsema' = tsema + 1
Requeue(i) ==
    /\ Refused(i)
    /\ PutBack(i)
    /\ fe' = [fe EXCEPT ![i] = NoItem]
    /\ wpc' = [wpc EXCEPT ![i] = "fetch"]
    /\ UNCHANGED <<poolVars, client, fnxt, exitcount, stopVars, callVars, flowVars, doneVars, stk>>

\* The recursive calls an instruction makes.
Nested(it) == {g \in Flows : Host[g] = it}

\* runMALsequence for the one instruction, and its state to DFLOWwrapup.  An
\* instruction that made a recursive call is done when that call is, and
\* hands on its error.
WorkerRun(i) ==
    LET f == fe[i][1]
        n == fe[i][2]
    IN  /\ wpc[i] = "run"
        /\ ~FlowLocked(f)
        /\ \A g \in Nested(fe[i]) : fpc[g] = "returned"
        /\ \E r \in {"ok", "err"} :
             /\ IF \E g \in Nested(fe[i]) : ret[g] = "error" THEN r = "err"
                ELSE r = "ok" \/ fe[i] \in Faulty
             /\ stk' = [stk EXCEPT ![f][n] = r]
             /\ wpc' = [wpc EXCEPT ![i] = IF r = "err" THEN "error" ELSE "grab"]
        /\ state' = [state EXCEPT ![f][n] = "wrapup"]
        /\ UNCHANGED <<poolVars, client, fe, fnxt, queueVars, stopVars, callVars, blocks, error, doneVars>>

\* The first error of the block is kept.
WorkerError(i) ==
    /\ wpc[i] = "error"
    /\ ~FlowLocked(fe[i][1])
    /\ error' = [error EXCEPT ![fe[i][1]] = TRUE]
    /\ wpc' = [wpc EXCEPT ![i] = "enqueue"]
    /\ UNCHANGED <<poolVars, client, fe, fnxt, queueVars, stopVars, callVars, state, blocks, doneVars, stk>>

\* The worker goes on with the first instruction in the wakeup list of its
\* own that waits for nothing else, without queueing it.
Eligible(f, m) == state[f][m] = "pending" /\ blocks[f][m] = 1

\* It marks the instruction as its own while it holds the flowlock.
NoClaim(f, m) == UNCHANGED <<state, blocks>>
Claim(f, m) ==
    /\ state' = [state EXCEPT ![f][m] = "running"]
    /\ blocks' = [blocks EXCEPT ![f][m] = 0]

WorkerGrab(i) ==
    LET f == fe[i][1]
        list == Wakeup[f][fe[i][2]]
    IN  /\ wpc[i] = "grab"
        /\ ~FlowLocked(f)
        /\ \/ \E k \in 1..Len(list) :
                /\ Eligible(f, list[k])
                /\ \A j \in 1..(k - 1) : ~Eligible(f, list[j])
                /\ Claim(f, list[k])
                /\ fnxt' = [fnxt EXCEPT ![i] = <<f, list[k]>>]
           \/ /\ \A k \in 1..Len(list) : ~Eligible(f, list[k])
              /\ UNCHANGED <<state, blocks, fnxt>>
        /\ wpc' = [wpc EXCEPT ![i] = "enqueue"]
        /\ UNCHANGED <<poolVars, client, fe, queueVars, stopVars, callVars, error, doneVars, stk>>

\* q_enqueue(flow->done, fe), first half.
WorkerEnqueue(i) ==
    /\ wpc[i] = "enqueue"
    /\ done' = [done EXCEPT ![fe[i][1]] = Append(@, fe[i])]
    /\ wpc' = [wpc EXCEPT ![i] = "up"]
    /\ UNCHANGED <<poolVars, client, fe, fnxt, queueVars, stopVars, callVars, flowVars, dsema, stk>>

\* MT_sema_up(&flow->done->s).
NoPost(f) == UNCHANGED dsema
Post(f) == dsema' = [dsema EXCEPT ![f] = @ + 1]

\* Second half, and back to the top of the loop, with fnxt if there is one.
WorkerUp(i) ==
    /\ wpc[i] = "up"
    /\ Post(fe[i][1])
    /\ fe' = [fe EXCEPT ![i] = fnxt[i]]
    /\ fnxt' = [fnxt EXCEPT ![i] = NoItem]
    /\ wpc' = [wpc EXCEPT ![i] = IF fnxt[i] # NoItem THEN "got" ELSE "fetch"]
    /\ UNCHANGED <<poolVars, client, queueVars, stopVars, callVars, flowVars, done, stk>>

WorkerExit(i) ==
    /\ wpc[i] = "exit"
    /\ flag' = [flag EXCEPT ![i] = "EXITED"]
    /\ wpc' = [wpc EXCEPT ![i] = "none"]
    /\ UNCHANGED <<cntxt, wsema, client, fe, fnxt, queueVars, stopVars, callVars, flowVars, doneVars, stk>>

Worker(i) == \/ WorkerStart(i) \/ WorkerWait(i) \/ WorkerFetch(i) \/ WorkerDown(i)
             \/ TakeSpecific(i) \/ WorkerCompensate(i) \/ TakeGeneric(i)
             \/ WorkerCheck(i) \/ Admit(i) \/ Requeue(i) \/ WorkerRun(i) \/ WorkerError(i) \/ WorkerGrab(i)
             \/ WorkerEnqueue(i) \/ WorkerUp(i) \/ WorkerExit(i)

----------------------------------------------------------------------------
(***************************************************************************)
(* runMALdataflow and DFLOWscheduler, on the thread of the caller          *)
(***************************************************************************)

Active(f) == fpc[f] \notin {"idle", "returned"}

\* The worker slots whose thread is inside item it.
RunnersOf(it) == {i \in Slots : wpc[i] = "run" /\ fe[i] = it}

\* A session runs one block at a time; a recursive call is made by the
\* worker that executes the calling instruction.
Call(f) ==
    /\ fpc[f] = "idle"
    /\ ~exiting
    /\ IF Host[f] = NoItem
       THEN \A g \in Flows : Host[g] = NoItem /\ ClientOf[g] = ClientOf[f] => ~Active(g)
       ELSE RunnersOf(Host[f]) # {}
    /\ fpc' = [fpc EXCEPT ![f] = "join"]
    /\ UNCHANGED <<poolVars, localVars, queueVars, stopVars, slot, work, tasks, ret, flowVars, doneVars, stk>>

\* The first slot after lo with the flag fl.
LowestWith(fl, lo, i) == i > lo /\ flag[i] = fl /\ \A j \in (lo + 1)..(i - 1) : flag[j] # fl

\* Joins with a thread that exited; the lock is free during the join, so the
\* loop goes on from there and starts over after a round that joined one.
JoinExited(f) ==
    /\ fpc[f] = "join"
    /\ \E i \in Slots :
         /\ \/ LowestWith("EXITED", slot[f], i)
            \/ /\ \A j \in Slots : j > slot[f] => flag[j] # "EXITED"
               /\ LowestWith("EXITED", 0, i)
         /\ flag' = [flag EXCEPT ![i] = "JOINING"]
         /\ cntxt' = [cntxt EXCEPT ![i] = NoClient]
         /\ slot' = [slot EXCEPT ![f] = i]
    /\ fpc' = [fpc EXCEPT ![f] = "joining"]
    /\ UNCHANGED <<wsema, localVars, queueVars, stopVars, work, tasks, ret, flowVars, doneVars, stk>>

Joined(f) ==
    /\ fpc[f] = "joining"
    /\ flag' = [flag EXCEPT ![slot[f]] = "IDLE"]
    /\ fpc' = [fpc EXCEPT ![f] = "join"]
    /\ UNCHANGED <<cntxt, wsema, localVars, queueVars, stopVars, slot, work, tasks, ret, flowVars, doneVars, stk>>

\* The client the new worker is specific to: the caller's, but at a
\* calldepth beyond 1 that of the worker making the call, if it is one.
NotSpecific(f) == NoClient
Specificity(f) ==
    IF Host[f] # NoItem THEN cntxt[CHOOSE i \in RunnersOf(Host[f]) : TRUE]
    ELSE IF f \in Deep THEN NoClient
    ELSE ClientOf[f]

\* Takes the first idle slot and starts a worker in it.
CreateWorker(f) ==
    /\ fpc[f] = "join"
    /\ \A i \in Slots : flag[i] # "EXITED"
    /\ \E i \in Slots :
         /\ LowestWith("IDLE", 0, i)
         /\ cntxt' = [cntxt EXCEPT ![i] = Specificity(f)]
         /\ \/ /\ flag' = [flag EXCEPT ![i] = "RUNNING"]
               /\ wpc' = [wpc EXCEPT ![i] = "start"]
               /\ slot' = [slot EXCEPT ![f] = i]
               /\ fpc' = [fpc EXCEPT ![f] = "alloc"]
            \/ /\ MayFail
               /\ fpc' = [fpc EXCEPT ![f] = "serial"]
               /\ UNCHANGED <<flag, wpc, slot>>
    /\ UNCHANGED <<wsema, client, fe, fnxt, queueVars, stopVars, work, tasks, ret, flowVars, doneVars, stk>>

\* No slot left: the block runs serially in the caller.
NoSlot(f) ==
    /\ fpc[f] = "join"
    /\ \A i \in Slots : flag[i] \notin {"EXITED", "IDLE"}
    /\ fpc' = [fpc EXCEPT ![f] = "serial"]
    /\ UNCHANGED <<poolVars, localVars, queueVars, stopVars, slot, work, tasks, ret, flowVars, doneVars, stk>>

\* *ret = TRUE: the interpreter executes the block itself, in program order
\* up to the first error.
RunSerially(f) ==
    /\ fpc[f] = "serial"
    /\ \E k \in 0..Len(Wakeup[f]) :
         /\ stk' = [stk EXCEPT ![f] = [n \in Instrs(f) |->
                       IF n <= k THEN "ok" ELSE IF n = k + 1 THEN "err" ELSE "none"]]
         /\ ret' = [ret EXCEPT ![f] = IF k = Len(Wakeup[f]) THEN "ok" ELSE "error"]
    /\ fpc' = [fpc EXCEPT ![f] = "returned"]
    /\ UNCHANGED <<poolVars, localVars, queueVars, stopVars, slot, work, tasks, flowVars, doneVars>>

\* An allocation for the flow fails: an exception, with the new worker left
\* as it is.
AllocFails(f) ==
    /\ fpc[f] = "alloc"
    /\ MayFail
    /\ ret' = [ret EXCEPT ![f] = "error"]
    /\ fpc' = [fpc EXCEPT ![f] = "returned"]
    /\ UNCHANGED <<poolVars, localVars, queueVars, stopVars, slot, work, tasks, flowVars, doneVars, stk>>

\* DFLOWinitBlk fails or the block is empty: the flow is released and a
\* worker is told to exit.
InitFails(f) ==
    /\ fpc[f] = "alloc"
    /\ MayFail \/ Instrs(f) = {}
    /\ ret' = [ret EXCEPT ![f] = "error"]
    /\ fpc' = [fpc EXCEPT ![f] = "token"]
    /\ UNCHANGED <<poolVars, localVars, queueVars, stopVars, slot, work, tasks, flowVars, doneVars, stk>>

\* DFLOWinitBlk, and the scheduler's first critical section opens.
InitBlk(f) ==
    /\ fpc[f] = "alloc"
    /\ Instrs(f) # {}
    /\ blocks' = [blocks EXCEPT ![f] = [n \in Instrs(f) |-> InitialBlocks(f, n)]]
    /\ work' = [work EXCEPT ![f] = [n \in Instrs(f) |-> n]]
    /\ fpc' = [fpc EXCEPT ![f] = "seed"]
    /\ UNCHANGED <<poolVars, localVars, queueVars, stopVars, slot, tasks, ret, state, error, doneVars, stk>>

\* One round of the loop that queues the instructions that wait for nothing.
Seed(f) ==
    LET n == Head(work[f])
    IN  /\ fpc[f] = "seed"
        /\ IF blocks[f][n] = 0
           THEN /\ todo' = Append(todo, <<f, n>>)
                /\ tsema' = tsema + 1
                /\ state' = [state EXCEPT ![f][n] = "running"]
           ELSE UNCHANGED <<todo, tsema, state>>
        /\ work' = [work EXCEPT ![f] = Tail(@)]
        /\ fpc' = [fpc EXCEPT ![f] = IF Tail(work[f]) = <<>> THEN "signal" ELSE "seed"]
        /\ UNCHANGED <<poolVars, localVars, exitcount, stopVars, slot, tasks, ret, blocks, error, doneVars, stk>>

\* MT_sema_up(&w->s): the worker may start.
Signal(f) ==
    /\ fpc[f] = "signal"
    /\ wsema' = [wsema EXCEPT ![slot[f]] = @ + 1]
    /\ fpc' = [fpc EXCEPT ![f] = "wait"]
    /\ UNCHANGED <<flag, cntxt, localVars, queueVars, stopVars, slot, work, tasks, ret, flowVars, doneVars, stk>>

\* actions == tasks: every instruction came back.
OneShort(f) == tasks[f] + 1 >= Len(Wakeup[f])
AllBack(f) == tasks[f] = Len(Wakeup[f])

\* q_dequeue(flow->done, NULL): the last finished instruction queued.
Finished(f) ==
    LET it == done[f][Len(done[f])]
    IN  /\ fpc[f] = "wait"
        /\ ~AllBack(f)
        /\ dsema[f] > 0
        /\ dsema' = [dsema EXCEPT ![f] = @ - 1]
        /\ done' = [done EXCEPT ![f] = SubSeq(@, 1, Len(@) - 1)]
        /\ tasks' = [tasks EXCEPT ![f] = @ + 1]
        /\ work' = [work EXCEPT ![f] = Wakeup[f][it[2]]]
        /\ fpc' = [fpc EXCEPT ![f] = IF Wakeup[f][it[2]] = <<>> THEN "wait" ELSE "walk"]
        /\ UNCHANGED <<poolVars, localVars, queueVars, stopVars, slot, ret, flowVars, stk>>

\* Only an instruction nobody took yet is counted down.
Waits(f, m) == state[f][m] = "pending"

\* One edge of the wakeup list of the finished instruction.
Walk(f) ==
    LET m == Head(work[f])
    IN  /\ fpc[f] = "walk"
        /\ IF Waits(f, m)
           THEN /\ blocks' = [blocks EXCEPT ![f][m] = @ - 1]
                /\ IF blocks[f][m] = 1
                   THEN /\ state' = [state EXCEPT ![f][m] = "running"]
                        /\ todo' = Append(todo, <<f, m>>)
                        /\ tsema' = tsema + 1
                   ELSE UNCHANGED <<state, todo, tsema>>
           ELSE UNCHANGED <<state, blocks, todo, tsema>>
        /\ work' = [work EXCEPT ![f] = Tail(@)]
        /\ fpc' = [fpc EXCEPT ![f] = IF Tail(work[f]) = <<>> THEN "wait" ELSE "walk"]
        /\ UNCHANGED <<poolVars, localVars, exitcount, stopVars, slot, tasks, ret, error, doneVars, stk>>

\* w->cntxt = NULL.
StayBound(f) == UNCHANGED cntxt
Unbind(f) == cntxt' = [cntxt EXCEPT ![slot[f]] = NoClient]

\* All instructions accounted for: the worker turns generic, the flow is
\* released and its error handed on.
Release(f) ==
    /\ fpc[f] = "wait"
    /\ AllBack(f)
    /\ Unbind(f)
    /\ ret' = [ret EXCEPT ![f] = IF error[f] THEN "error" ELSE "ok"]
    /\ fpc' = [fpc EXCEPT ![f] = "token"]
    /\ UNCHANGED <<flag, wsema, localVars, queueVars, stopVars, slot, work, tasks, flowVars, doneVars, stk>>

\* One worker was created, one is told to exit.
Token(f) ==
    /\ fpc[f] = "token"
    /\ exitcount' = exitcount + 1
    /\ tsema' = tsema + 1
    /\ fpc' = [fpc EXCEPT ![f] = "returned"]
    /\ UNCHANGED <<poolVars, localVars, todo, stopVars, slot, work, tasks, ret, flowVars, doneVars, stk>>

Scheduler(f) == \/ JoinExited(f) \/ Joined(f) \/ CreateWorker(f) \/ NoSlot(f)
                \/ RunSerially(f) \/ AllocFails(f) \/ InitFails(f) \/ InitBlk(f)
                \/ Seed(f) \/ Signal(f) \/ Finished(f) \/ Walk(f) \/ Release(f)
                \/ Token(f)

----------------------------------------------------------------------------
(***************************************************************************)
(* stopMALdataflow.  mserver_reset leaves it to the application to cease   *)
(* all activity first, so no call is active.                               *)
(***************************************************************************)

\* One permit for each slot.
Stop ==
    /\ ~exiting
    /\ \A f \in Flows : ~Active(f)
    /\ exiting' = TRUE
    /\ tsema' = tsema + Threads
    /\ stop' = 1
    /\ UNCHANGED <<poolVars, localVars, todo, exitcount, callVars, flowVars, doneVars, stk>>

StopMark ==
    /\ stop \in Slots
    /\ flag[stop] \notin {"IDLE", "JOINING"}
    /\ flag' = [flag EXCEPT ![stop] = "JOINING"]
    /\ UNCHANGED <<cntxt, wsema, localVars, queueVars, stopVars, callVars, flowVars, doneVars, stk>>

\* A shutdown that does not wait for the threads.
NoJoin ==
    /\ stop \in Slots
    /\ flag[stop] \in {"IDLE", "JOINING", "EXITED"}
    /\ flag' = [flag EXCEPT ![stop] = "IDLE"]
    /\ stop' = stop + 1
    /\ UNCHANGED <<cntxt, wsema, localVars, queueVars, exiting, callVars, flowVars, doneVars, stk>>

\* MT_join_thread returns when the thread is gone.
StopJoin ==
    /\ stop \in Slots
    /\ \/ flag[stop] = "IDLE"
       \/ flag[stop] \in {"JOINING", "EXITED"} /\ wpc[stop] = "none"
    /\ flag' = [flag EXCEPT ![stop] = "IDLE"]
    /\ stop' = stop + 1
    /\ UNCHANGED <<cntxt, wsema, localVars, queueVars, exiting, callVars, flowVars, doneVars, stk>>

\* After the shutdown nothing happens any more.
Stopped == stop = Threads + 1 /\ UNCHANGED vars

Next == \/ \E i \in Slots : Worker(i)
        \/ \E f \in Flows : Call(f) \/ Scheduler(f)
        \/ Stop \/ StopMark \/ StopJoin
        \/ Stopped

Spec == Init /\ [][Next]_vars

(***************************************************************************)
(* Fairness.  A thread that can run eventually does, except that an        *)
(* instruction of a Big block may take forever.  A worker waiting on       *)
(* todo->s gets a permit when there is one again and again: a worker that  *)
(* hands a permit back sleeps before it competes for the next.             *)
(***************************************************************************)
Busy(i) == wpc[i] = "run" /\ fe[i][1] \in Big

Fairness ==
    /\ \A i \in Slots : WF_vars(Worker(i) /\ ~Busy(i)) /\ SF_vars(WorkerDown(i))
    /\ \A f \in Flows : WF_vars(Scheduler(f))
    /\ \A f \in Flows : WF_vars(Host[f] # NoItem /\ Call(f))
    /\ WF_vars(StopMark \/ StopJoin)

FairSpec == Spec /\ Fairness

----------------------------------------------------------------------------
(***************************************************************************)
(* Properties                                                              *)
(***************************************************************************)

WorkerPCs == {"none", "start", "wait", "fetch", "down", "locked", "compensate",
              "got", "admit", "run", "error", "grab", "enqueue", "up", "exit"}
CallPCs == {"idle", "join", "joining", "alloc", "serial", "seed", "signal",
            "wait", "walk", "token", "returned"}

PoolOK ==
    /\ flag \in [Slots -> {"IDLE", "RUNNING", "JOINING", "EXITED"}]
    /\ cntxt \in [Slots -> Clients \cup {NoClient}]
    /\ wsema \in [Slots -> Nat]

LocalsOK ==
    /\ wpc \in [Slots -> WorkerPCs]
    /\ client \in [Slots -> Clients \cup {NoClient}]
    /\ fe \in [Slots -> Items \cup {NoItem}]
    /\ fnxt \in [Slots -> Items \cup {NoItem}]

QueueOK ==
    /\ todo \in Seq(Items)
    /\ tsema \in Nat
    /\ exitcount \in Nat
    /\ exiting \in BOOLEAN
    /\ stop \in 0..(Threads + 1)

CallsOK ==
    /\ fpc \in [Flows -> CallPCs]
    /\ slot \in [Flows -> 0..Threads]
    /\ DOMAIN work = Flows /\ \A f \in Flows : work[f] \in Seq(Instrs(f))
    /\ DOMAIN tasks = Flows /\ \A f \in Flows : tasks[f] \in 0..Len(Wakeup[f])
    /\ ret \in [Flows -> {"none", "ok", "error"}]

FlowsOK ==
    /\ DOMAIN state = Flows
    /\ \A f \in Flows : state[f] \in [Instrs(f) -> {"pending", "running", "wrapup"}]
    /\ DOMAIN blocks = Flows /\ \A f \in Flows : blocks[f] \in [Instrs(f) -> Int]
    /\ error \in [Flows -> BOOLEAN]
    /\ DOMAIN done = Flows /\ \A f \in Flows : done[f] \in Seq({f} \X Instrs(f))
    /\ dsema \in [Flows -> Nat]
    /\ DOMAIN stk = Flows /\ \A f \in Flows : stk[f] \in [Instrs(f) -> {"none", "ok", "err"}]

\* The values the variables take: no semaphore and no counter of permits,
\* exits or finished instructions leaves its range, every queue of a flow
\* holds instructions of that flow.
TypeOK == PoolOK /\ LocalsOK /\ QueueOK /\ CallsOK /\ FlowsOK

\* The workers that took a permit of todo->s and have not yet turned it into
\* an instruction or an exit, nor handed it back.
Locked == {i \in Slots : wpc[i] = "locked"}
PermitHolders == {i \in Slots : wpc[i] \in {"locked", "compensate"}}

\* Every instruction queued and every request to exit is matched by one
\* permit, free or in the hands of a worker, also when specific workers take
\* permits and hand them back; so a worker that got a permit finds something:
\* the assertion q->last > 0 of q_dequeue holds, during a shutdown too.
PermitAccounting ==
    IF exiting THEN Cardinality(Locked) <= Len(todo) + exitcount
    ELSE tsema + Cardinality(PermitHolders) = Len(todo) + exitcount

\* Likewise for the done queue of each flow, whose permits are posted in a
\* step of their own after the append.
DonePermits ==
    \A f \in Flows :
        dsema[f] + Cardinality({i \in Slots : wpc[i] = "up" /\ fe[i][1] = f}) = Len(done[f])

\* The places an item can be.
InTodo(it) == {k \in 1..Len(todo) : todo[k] = it}
InDone(it) == {k \in 1..Len(done[it[1]]) : done[it[1]][k] = it}
AtWorker(it) == {i \in Slots : fe[i] = it /\ wpc[i] # "up"}
NextAtWorker(it) == {i \in Slots : fnxt[i] = it}
Copies(it) == Cardinality(InTodo(it)) + Cardinality(InDone(it))
              + Cardinality(AtWorker(it)) + Cardinality(NextAtWorker(it))

\* No instruction is queued twice, or queued and grabbed by a worker: the
\* worker that goes on with a successor and the scheduler that queues it
\* never both take it, and a pending one is nowhere.
SingleCopy ==
    \A it \in Items : Copies(it) <= (IF state[it[1]][it[2]] = "pending" THEN 0 ELSE 1)

\* The edges into n that the scheduler still has to walk: those of the
\* instructions not yet taken from the done queue, and what is left of the
\* list it is walking.
OpenEdges(f, n) ==
    {e \in UNION {{p} \X (1..Len(Wakeup[f][p])) : p \in Instrs(f)} :
        /\ Wakeup[f][e[1]][e[2]] = n
        /\ state[f][e[1]] = "pending" \/ Copies(<<f, e[1]>>) > 0}

\* While an instruction is pending its blocks counter is exact, duplicate
\* edges included: an instruction that uses a variable twice is neither
\* started early nor left behind.
BlocksExact ==
    \A f \in Flows : fpc[f] \in {"seed", "signal", "wait", "walk"} =>
        \A n \in Instrs(f) : state[f][n] = "pending" =>
            blocks[f][n] = Cardinality(OpenEdges(f, n))
                + IF fpc[f] = "walk" THEN Cardinality({k \in 1..Len(work[f]) : work[f][k] = n})
                  ELSE 0

\* A flow is released (its status array, its done queue and semaphore freed)
\* only when no worker can touch it again: nothing of it is queued, at a
\* worker, or being posted, and the assertion done->last == 0 holds.
ReleasedClean ==
    \A f \in Flows : fpc[f] \in {"token", "returned"} =>
        /\ done[f] = <<>> /\ dsema[f] = 0
        /\ \A k \in 1..Len(todo) : todo[k][1] # f
        /\ \A i \in Slots : \A it \in {fe[i], fnxt[i]} : it # NoItem => it[1] # f

\* A slot is given to a new worker only when the thread that had it is gone,
\* whoever joined with that thread: no two threads ever share a slot.
SlotsFree == \A i \in Slots : flag[i] \in {"IDLE", "EXITED"} => wpc[i] = "none"

\* Between calls the pool is back at GDKnr_threads - 1 generic workers, the
\* requests to exit still queued discounted: what the comment above
\* runMALdataflow promises.
PoolRestored ==
    (~exiting /\ \A f \in Flows : ~Active(f)) =>
        Cardinality({i \in Slots : flag[i] = "RUNNING" /\ wpc[i] # "exit"
                                   /\ cntxt[i] = NoClient}) - exitcount = Limit

\* "This specific worker will only do work for the client for which it was
\* started": as long as a session's block runs, the worker it created is
\* bound to the session.
WorkerStaysSpecific ==
    \A f \in Flows :
        Host[f] = NoItem /\ f \notin Deep
            /\ fpc[f] \in {"alloc", "seed", "signal", "wait", "walk"}
        => flag[slot[f]] = "RUNNING" /\ cntxt[slot[f]] = ClientOf[f]

\* What the scheduler promises its callers: DataflowSpec.
Abstract == INSTANCE DataflowSpec
ImplementsSpec == Abstract!Spec

\* "There will always be progress for the client, even if all other workers
\* are doing something big": every call returns, however long the
\* instructions of the Big ones take, provided that these claim no memory, and
\* that no instruction that makes a recursive call does: what is refused meanwhile
\* is refused as long as they take.
CallsReturn == \A f \in Flows \ Big : Active(f) ~> ~Active(f)

\* stopMALdataflow returns: no worker sleeps through the shutdown.
StopReturns == exiting ~> (stop = Threads + 1)
=============================================================================
