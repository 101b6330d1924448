------------------------- MODULE SharedMemoryClient -------------------------
(***************************************************************************)
(* client/shared_memory_client.py: infer_with_shm() calls of one client    *)
(* (Callers, each calling Calls times), and other threads that call        *)
(* cleanup() or close() on it meanwhile (Closers).  Any step that leaves   *)
(* the process may raise, before or after it took effect.  The shared      *)
(* memory library and the server are external.                             *)
(***************************************************************************)
EXTENDS Naturals, Sequences, FiniteSets, SequencesExt

CONSTANTS Callers, Closers,
          Calls,            \* bound: infer_with_shm calls of a caller
          MaxInside,        \* bound: threads that are inside of a call at a time
          Inputs, Outputs   \* regions of one call

ASSUME SharedMemoryAssumption ==
    /\ Callers \cap Closers = {}
    /\ Calls \in Nat \ {0} /\ MaxInside \in Nat /\ Inputs \in Nat \ {0} /\ Outputs \in Nat \ {0}

Thread == Callers \cup Closers
Region == Callers \X (1..Calls) \X (1..(Inputs + Outputs))

VARIABLES
    pc, call,     \* where each thread is; the caller's current call
    todo,         \* request_regions, or the copy of the list that is cleaned up
    tracked,      \* _registered_regions
    handles,      \* the keys of _region_handles
    closed, gone, \* _closed; _client is None
    closing,      \* the closers that run close() rather than cleanup()
    local,        \* regions that exist in the host's shared memory
    known,        \* regions registered with the server
    undestroyed,  \* regions whose destroy call raised without effect
    unforgotten   \* regions whose unregister call raised without effect

ownVars   == <<call, closed, gone, closing>>
listVars  == <<tracked, handles>>
ghostVars == <<undestroyed, unforgotten>>
vars == <<pc, ownVars, todo, listVars, local, known, ghostVars>>

Init ==
    /\ pc = [t \in Thread |-> "idle"] /\ call = [t \in Callers |-> 1]
    /\ todo = [t \in Thread |-> <<>>]
    /\ tracked = <<>> /\ handles = {}
    /\ closed = FALSE /\ gone = FALSE /\ closing = {}
    /\ local = {} /\ known = {} /\ undestroyed = {} /\ unforgotten = {}

Goto(t, phase) == pc' = [pc EXCEPT ![t] = phase]

\* The region a call is setting up.
Newest(t) == Last(todo[t])

\* Fault: regions are cleaned up first to last.
At_Oldest(t) == 1

\* The region that is cleaned up: last to first.
At(t) == Len(todo[t])
Current(t) == todo[t][At(t)]
Rest(t) == RemoveAt(todo[t], At(t))

----------------------------------------------------------------------------
(* infer_with_shm                                                           *)

\* The client is open and the arguments are valid; or an exception.
Begin(t) ==
    /\ pc[t] = "idle"
    /\ \/ ~closed /\ Goto(t, "create")
       \/ Goto(t, "done")
    /\ UNCHANGED <<ownVars, todo, listVars, local, known, ghostVars>>

\* create_shared_memory_region, _track_region and request_regions.append, or
\* an exception of the first (an empty input raises as well).
Create(t) ==
    /\ pc[t] = "create"
    /\ LET r == <<t, call[t], Len(todo[t]) + 1>> IN
       \/ /\ local' = local \cup {r} /\ handles' = handles \cup {r}
          /\ tracked' = Append(tracked, r)
          /\ todo' = [todo EXCEPT ![t] = Append(@, r)]
          /\ Goto(t, IF Len(todo[t]) < Inputs THEN "write" ELSE "register")
       \/ Goto(t, "clean") /\ UNCHANGED <<local, listVars, todo>>
    /\ UNCHANGED <<ownVars, known, ghostVars>>

\* set_shared_memory_region copies an input in.
Write(t) ==
    /\ pc[t] = "write"
    /\ Goto(t, "clean") \/ (Newest(t) \in local /\ Goto(t, "register"))
    /\ UNCHANGED <<ownVars, todo, listVars, local, known, ghostVars>>

\* register_system_shared_memory / register_cuda_shared_memory.  The server
\* maps a region that exists; its answer may be lost.
Register(t) ==
    /\ pc[t] = "register"
    /\ known' \in IF gone THEN {known} ELSE {known, known \cup ({Newest(t)} \cap local)}
    /\ \/ Goto(t, "clean")
       \/ /\ ~gone /\ Newest(t) \in known'
          /\ Goto(t, IF Len(todo[t]) = Inputs + Outputs THEN "infer" ELSE "create")
    /\ UNCHANGED <<ownVars, todo, listVars, local, ghostVars>>

\* infer, and the copy of its outputs; the finally clause runs either way.
Infer(t) ==
    /\ pc[t] = "infer"
    /\ Goto(t, "clean")
    /\ UNCHANGED <<ownVars, todo, listVars, local, known, ghostVars>>

----------------------------------------------------------------------------
(* _cleanup_regions                                                         *)

\* What the caller of _cleanup_regions does when it returns or raises.
Return(t) ==
    /\ todo' = [todo EXCEPT ![t] = <<>>]
    /\ IF t \in Callers
       THEN /\ call' = [call EXCEPT ![t] = IF @ < Calls THEN @ + 1 ELSE @]
            /\ Goto(t, IF call[t] < Calls THEN "idle" ELSE "done")
       ELSE Goto(t, "done") /\ UNCHANGED call

\* Faults: no unregister call; a region that another thread took is waited for.
NextRegion_Forgets(t) ==
    /\ pc[t] = "clean"
    /\ IF todo[t] = <<>>
       THEN IF t \in closing THEN Goto(t, "close") /\ UNCHANGED <<todo, call>> ELSE Return(t)
       ELSE IF Current(t) \in handles THEN Goto(t, "pop") /\ UNCHANGED <<todo, call>>
       ELSE todo' = [todo EXCEPT ![t] = Rest(t)] /\ UNCHANGED <<pc, call>>
    /\ UNCHANGED <<closed, gone, closing, listVars, local, known, ghostVars>>

NextRegion_Waits(t) ==
    /\ pc[t] = "clean"
    /\ IF todo[t] = <<>>
       THEN IF t \in closing THEN Goto(t, "close") /\ UNCHANGED <<todo, call>> ELSE Return(t)
       ELSE IF Current(t) \in handles THEN Goto(t, "unregister") /\ UNCHANGED <<todo, call>>
       ELSE UNCHANGED <<pc, todo, call>>
    /\ UNCHANGED <<closed, gone, closing, listVars, local, known, ghostVars>>

\* The loop: done, on to the client's close() in close(), or a region that is
\* no longer in _region_handles is skipped.
NextRegion(t) ==
    /\ pc[t] = "clean"
    /\ IF todo[t] = <<>>
       THEN IF t \in closing THEN Goto(t, "close") /\ UNCHANGED <<todo, call>> ELSE Return(t)
       ELSE IF Current(t) \in handles THEN Goto(t, "unregister") /\ UNCHANGED <<todo, call>>
       ELSE todo' = [todo EXCEPT ![t] = Rest(t)] /\ UNCHANGED <<pc, call>>
    /\ UNCHANGED <<closed, gone, closing, listVars, local, known, ghostVars>>

\* Its exceptions are logged; with _client = None it always raises.
Unregister(t) ==
    /\ pc[t] = "unregister"
    /\ \/ ~gone /\ known' = known \ {Current(t)} /\ UNCHANGED unforgotten
       \/ unforgotten' = unforgotten \cup ({Current(t)} \cap known) /\ UNCHANGED known
    /\ Goto(t, "pop")
    /\ UNCHANGED <<ownVars, todo, listVars, local, undestroyed>>

\* pop raises KeyError, out of the loop, if another thread was faster.
Pop(t) ==
    /\ pc[t] = "pop"
    /\ IF Current(t) \in handles
       THEN handles' = handles \ {Current(t)} /\ Goto(t, "destroy") /\ UNCHANGED <<todo, call>>
       ELSE Return(t) /\ UNCHANGED handles
    /\ UNCHANGED <<closed, gone, closing, tracked, local, known, ghostVars>>

\* destroy_shared_memory_region; its exceptions are logged.
Destroy(t) ==
    /\ pc[t] = "destroy"
    /\ \/ local' = local \ {Current(t)} /\ UNCHANGED undestroyed
       \/ undestroyed' = undestroyed \cup {Current(t)} /\ UNCHANGED local
    /\ Goto(t, "untrack")
    /\ UNCHANGED <<ownVars, todo, listVars, known, unforgotten>>

\* _registered_regions.remove; the ValueError if it is not there is caught.
Untrack(t) ==
    /\ pc[t] = "untrack"
    /\ tracked' = RemoveFirst(tracked, Current(t))
    /\ todo' = [todo EXCEPT ![t] = Rest(t)] /\ Goto(t, "clean")
    /\ UNCHANGED <<ownVars, handles, local, known, ghostVars>>

----------------------------------------------------------------------------
(* cleanup() and close()                                                    *)

Cleanup(t) ==
    /\ pc[t] = "idle"
    /\ todo' = [todo EXCEPT ![t] = tracked] /\ Goto(t, "clean")
    /\ UNCHANGED <<ownVars, listVars, local, known, ghostVars>>

\* if self._closed: return
Close(t) ==
    /\ pc[t] = "idle"
    /\ IF closed THEN Goto(t, "done") /\ UNCHANGED closing
       ELSE closing' = closing \cup {t} /\ Goto(t, "flag")
    /\ UNCHANGED <<call, closed, gone, todo, listVars, local, known, ghostVars>>

\* self._closed = True; a call, or another close(), may have begun since the test.
CloseFlag(t) ==
    /\ pc[t] = "flag"
    /\ closed' = TRUE /\ Goto(t, "copy")
    /\ UNCHANGED <<call, gone, closing, todo, listVars, local, known, ghostVars>>

CopyList(t) ==
    /\ pc[t] = "copy"
    /\ todo' = [todo EXCEPT ![t] = tracked] /\ Goto(t, "clean")
    /\ UNCHANGED <<ownVars, listVars, local, known, ghostVars>>

\* The HTTP client is closed, come what may, and dropped.
CloseClient(t) ==
    /\ pc[t] = "close"
    /\ gone' = TRUE /\ Goto(t, "done")
    /\ UNCHANGED <<call, closed, closing, todo, listVars, local, known, ghostVars>>

----------------------------------------------------------------------------

Step(t) ==
    \/ t \in Callers /\ (Create(t) \/ Write(t) \/ Register(t) \/ Infer(t))
    \/ t \in Closers /\ (CloseFlag(t) \/ CopyList(t) \/ CloseClient(t))
    \/ NextRegion(t) \/ Unregister(t) \/ Pop(t) \/ Destroy(t) \/ Untrack(t)

Inside == {t \in Thread : pc[t] \notin {"idle", "done"}}

Start(t) ==
    /\ Cardinality(Inside) < MaxInside
    /\ \/ t \in Callers /\ Begin(t)
       \/ t \in Closers /\ (Cleanup(t) \/ Close(t))

Quiet == Inside = {}

Finished == (\A t \in Thread : pc[t] = "done") /\ UNCHANGED vars

Next == (\E t \in Thread : Step(t) \/ Start(t)) \/ Finished

\* A call that has begun goes on: nothing in it waits without a timeout.
Spec == Init /\ [][Next]_vars /\ \A t \in Thread : WF_vars(Step(t))

----------------------------------------------------------------------------

\* Between calls nothing is left of a call, however it ended and whoever else
\* was at it: no region stays tracked, and none exists but those whose destroy
\* call failed.
NoRegionLeaks ==
    Quiet => tracked = <<>> /\ handles = {} /\ local \subseteq undestroyed

\* As long as nobody closes or cleans up the client from outside, the server
\* never keeps the registration of a region that was destroyed, unless the
\* unregister call failed, which the client only logs.
NoStaleRegistration ==
    (\A t \in Closers : pc[t] = "idle") => known \ local \subseteq unforgotten

\* Every call returns, with its regions cleaned up or another thread at it.
CallsReturn == \A t \in Thread : [](pc[t] # "idle" => <>(pc[t] \in {"idle", "done"}))

============================================================================
