--------------------------- MODULE LifecycleProofs ---------------------------
(***************************************************************************)
(* Proofs about Lifecycle: why the cleanup of main.c is right, whichever   *)
(* step of the startup the goto came from.                                 *)
(***************************************************************************)
EXTENDS Lifecycle, TLAPS

LifeTypes == /\ sim \in BOOLEAN /\ running \in BOOLEAN
             /\ entered \in BOOLEAN
             /\ phase \in {"startup", "loop", "cleanup", "exited", "crashed",
                           "killed"}
             /\ step \in Nat \ {0}
             /\ slot \in [Objects -> {"unset", "null", "live", "freed",
                                   "dangling"}]
             /\ ctx \in [Threaded -> {"raw", "ready", "joined"}]
             /\ thread \in [Threaded -> {"none", "running", "ended"}]
             /\ flag \in [Threaded -> BOOLEAN]

(* A thread runs in a context that was initialised and not yet joined, on  *)
(* an object that main has not freed.                                      *)
ThreadInv == \A o \in Threaded :
               /\ thread[o] = "running" => slot[o] = "live" /\ ctx[o] = "ready"
               /\ thread[o] = "none" <=> ctx[o] = "raw"

(* What is there at each step of the startup.  The radar never starts, so  *)
(* that only a simulation gets past step 8.                                *)
StartInv ==
  phase \in {"startup", "loop"} =>
    /\ step <= IF sim THEN 9 ELSE 8
    /\ slot["config"] # "unset"
    /\ phase = "loop" => step = 9
    /\ step > 2 => slot["queue"] = "live"
    /\ step > 3 => slot["fusion"] = "live"
    /\ step > 4 => \A o \in Objects : slot[o] # "unset"
    /\ step > 4 /\ sim => slot["video"] = "null" /\ slot["radar"] = "null"
    /\ step > 5 => slot[IF sim THEN "simulator" ELSE "video"] = "live"
    /\ step > 6 /\ ~sim => slot["radar"] = "live"
    /\ thread["simulator"] # "none" <=> sim /\ step > 6
    /\ thread["video"] # "none" <=> ~sim /\ step > 7
    /\ thread["radar"] = "none"
    /\ thread["fusion"] # "none" <=> sim /\ step > 7
    /\ thread["monitor"] # "none" => sim /\ step > 8
    /\ slot["monitor"] = "live" => thread["monitor"] # "none"

(* Past the startup no pointer and no context of a live object is          *)
(* uninitialised.                                                          *)
EnteredInv == /\ phase = "startup" => ~entered
              /\ LateCrashIsLast
              /\ entered => /\ sim
                            /\ \A o \in Objects : slot[o] # "unset"
                            /\ \A o \in Threaded :
                                 slot[o] = "live" => ctx[o] # "raw"

(* The cleanup leaves nothing alive behind it.                             *)
CleanInv == /\ phase = "cleanup" =>
                 /\ step <= 8
                 /\ \A i \in 1 .. 7 : i < step => slot[CleanupOrder[i]] # "live"
            /\ phase = "exited" => \A o \in Objects : slot[o] # "live"

LifeInv == LifeTypes /\ ThreadInv /\ StartInv /\ EnteredInv /\ CleanInv
           /\ UsersGoFirst

-----------------------------------------------------------------------------
(* The startup plan, entry by entry                                        *)
LEMMA PlanDue ==
  ASSUME NEW verb, NEW o, Due(verb, o), step \in Nat \ {0}
  PROVE  \/ step = 1 /\ verb = "load" /\ o = "config"
         \/ step = 2 /\ verb = "create" /\ o = "queue"
         \/ step = 3 /\ verb = "create" /\ o = "fusion"
         \/ step = 4 /\ verb = "declare" /\ o = "pointers"
         \/ sim /\ step = 5 /\ verb = "create" /\ o = "simulator"
         \/ sim /\ step = 6 /\ verb = "start" /\ o = "simulator"
         \/ sim /\ step = 7 /\ verb = "start" /\ o = "fusion"
         \/ sim /\ step = 8 /\ verb = "start" /\ o = "monitor"
         \/ ~sim /\ step = 5 /\ verb = "create" /\ o = "video"
         \/ ~sim /\ step = 6 /\ verb = "create" /\ o = "radar"
         \/ ~sim /\ step = 7 /\ verb = "start" /\ o = "video"
         \/ ~sim /\ step = 8 /\ verb = "start" /\ o = "radar"
         \/ ~sim /\ step > 8
<1>1. step \in 1 .. Len(Plan) /\ verb = Plan[step][1] /\ o = Plan[step][2]
  BY DEF Due
<1>2. CASE sim
  <2>1. step = 1 => verb = "load" /\ o = "config"
    BY <1>1, <1>2 DEF Plan
  <2>2. step = 2 => verb = "create" /\ o = "queue"
    BY <1>1, <1>2 DEF Plan
  <2>3. step = 3 => verb = "create" /\ o = "fusion"
    BY <1>1, <1>2 DEF Plan
  <2>4. step = 4 => verb = "declare" /\ o = "pointers"
    BY <1>1, <1>2 DEF Plan
  <2>5. step = 5 => verb = "create" /\ o = "simulator"
    BY <1>1, <1>2 DEF Plan
  <2>6. step = 6 => verb = "start" /\ o = "simulator"
    BY <1>1, <1>2 DEF Plan
  <2>7. step = 7 => verb = "start" /\ o = "fusion"
    BY <1>1, <1>2 DEF Plan
  <2>8. step = 8 => verb = "start" /\ o = "monitor"
    BY <1>1, <1>2 DEF Plan
  <2>9. Len(Plan) = 8
    BY <1>2 DEF Plan
  <2>10. step \in 1 .. 8
    BY <2>9, <1>1
  <2>11. step \in {1, 2, 3, 4, 5, 6, 7, 8}
    BY <2>10
  <2>12. QED
    BY <2>1, <2>2, <2>3, <2>4, <2>5, <2>6, <2>7, <2>8, <2>11, <1>2
<1>3. CASE ~sim
  <2>1. step = 1 => verb = "load" /\ o = "config"
    BY <1>1, <1>3 DEF Plan
  <2>2. step = 2 => verb = "create" /\ o = "queue"
    BY <1>1, <1>3 DEF Plan
  <2>3. step = 3 => verb = "create" /\ o = "fusion"
    BY <1>1, <1>3 DEF Plan
  <2>4. step = 4 => verb = "declare" /\ o = "pointers"
    BY <1>1, <1>3 DEF Plan
  <2>5. step = 5 => verb = "create" /\ o = "video"
    BY <1>1, <1>3 DEF Plan
  <2>6. step = 6 => verb = "create" /\ o = "radar"
    BY <1>1, <1>3 DEF Plan
  <2>7. step = 7 => verb = "start" /\ o = "video"
    BY <1>1, <1>3 DEF Plan
  <2>8. step = 8 => verb = "start" /\ o = "radar"
    BY <1>1, <1>3 DEF Plan
  <2>9. step \in {1, 2, 3, 4, 5, 6, 7, 8} \/ step > 8
    OBVIOUS
  <2>10. QED
    BY <2>1, <2>2, <2>3, <2>4, <2>5, <2>6, <2>7, <2>8, <2>9, <1>3
<1>4. QED
  BY <1>2, <1>3

LEMMA ObjectFacts ==
  /\ Threaded \subseteq Objects
  /\ \A o \in Objects : o \in Threaded \cup {"config", "queue"}
  /\ {"simulator", "video", "radar", "fusion", "monitor"} = Threaded
  /\ "config" \in Objects /\ "queue" \in Objects
  BY DEF Objects, Threaded

LEMMA UsesFacts ==
  UsersGoFirst <=>
    /\ \A o \in Threaded : thread[o] = "running" => slot[o] = "live"
    /\ thread["video"] = "running" \/ thread["radar"] = "running" =>
         slot["queue"] = "live"
    /\ thread["monitor"] = "running" => slot["fusion"] = "live"
  BY DEF UsersGoFirst, Uses, Threaded

LEMMA LifeInit == Init => LifeInv
<1> SUFFICES ASSUME Init PROVE LifeInv
  OBVIOUS
<1>0. LifeTypes
  <2>1. slot \in [Objects -> {"unset", "null", "live", "freed", "dangling"}]
    BY DEF Init
  <2>2. /\ ctx \in [Threaded -> {"raw", "ready", "joined"}]
        /\ thread \in [Threaded -> {"none", "running", "ended"}]
        /\ flag \in [Threaded -> BOOLEAN]
    BY DEF Init
  <2>3. step \in Nat \ {0}
    BY DEF Init
  <2>4. /\ phase = "startup" /\ sim \in BOOLEAN
        /\ running \in BOOLEAN /\ entered \in BOOLEAN
    BY DEF Init
  <2>5. QED
    BY <2>1, <2>2, <2>3, <2>4 DEF LifeTypes
<1>1. ThreadInv
  BY DEF Init, ThreadInv
<1>2. StartInv
  BY DEF Init, StartInv, Threaded, Objects
<1>3. EnteredInv /\ CleanInv /\ UsersGoFirst
  BY DEF Init, EnteredInv, LateCrashIsLast, CleanInv, UsersGoFirst
<1>4. QED
  BY <1>0, <1>1, <1>2, <1>3 DEF LifeInv

(* Whoever goes to the cleanup label starts at its first object.           *)
LEMMA ToCleanup ==
  ASSUME LifeInv, GotoCleanup, LifeTypes', ThreadInv', UsersGoFirst',
         entered' = entered,
         entered => slot' = slot /\ ctx' = ctx /\ sim' = sim
  PROVE  LifeInv'
<1>1. phase' = "cleanup" /\ step' = 1
  BY DEF GotoCleanup
<1>2. StartInv'
  BY <1>1 DEF StartInv
<1>3. CleanInv'
  BY <1>1 DEF CleanInv
<1>4. EnteredInv'
  BY <1>1 DEF LifeInv, EnteredInv, LateCrashIsLast
<1>5. QED
  BY <1>2, <1>3, <1>4 DEF LifeInv

(* The startup creates and starts; nothing has run through the loop yet.   *)
LEMMA LoadStep ==
  ASSUME LifeInv, LoadOk \/ LoadFails \/ LockFails
  PROVE  LifeInv'
<1>1. /\ phase = "startup" /\ step = 1
  <2>1. Due("load", "config") /\ step \in Nat \ {0}
    BY DEF LifeInv, LifeTypes, LoadOk, LoadFails, LockFails
  <2>2. step = 1
    BY <2>1, PlanDue DEF LifeInv, StartInv, Due
  <2>3. QED
    BY <2>1, <2>2 DEF Due
<1>2. CASE LoadOk
  <2>1. /\ slot' = [slot EXCEPT !["config"] = "live"]
        /\ step' = 2
        /\ UNCHANGED <<sim, phase, ctx, thread, flag, running, entered>>
    BY <1>1, <1>2 DEF LoadOk, Advance
  <2>2. LifeTypes' /\ ThreadInv'
    BY <2>1 DEF LifeInv, LifeTypes, ThreadInv, Objects, Threaded
  <2>3. StartInv'
    BY <1>1, <2>1 DEF LifeInv, LifeTypes, StartInv, Objects, Threaded
  <2>4. EnteredInv' /\ CleanInv'
    BY <1>1, <2>1 DEF LifeInv, EnteredInv, LateCrashIsLast, CleanInv
  <2>5. UsersGoFirst'
    BY <2>1 DEF LifeInv, LifeTypes, UsersGoFirst, Uses, Objects, Threaded
  <2>6. QED
    BY <2>2, <2>3, <2>4, <2>5 DEF LifeInv
<1>3. CASE LoadFails
  <2>1. UNCHANGED <<sim, slot, ctx, thread, flag, running, entered>>
    BY <1>3 DEF LoadFails
  <2>2. ThreadInv' /\ UsersGoFirst'
    BY <2>1 DEF LifeInv, ThreadInv, UsersGoFirst
  <2>3. CASE sim
    <3>1. step' = 2 /\ phase' = phase
      BY <1>1, <1>3, <2>3 DEF LoadFails, Advance
    <3>2. LifeTypes'
      BY <2>1, <3>1 DEF LifeInv, LifeTypes
    <3>3. StartInv' /\ EnteredInv' /\ CleanInv'
      BY <1>1, <2>1, <3>1
      DEF LifeInv, StartInv, EnteredInv, LateCrashIsLast, CleanInv
    <3>4. QED
      BY <2>2, <3>2, <3>3 DEF LifeInv
  <2>4. CASE ~sim
    <3>1. GotoCleanup
      BY <1>3, <2>4 DEF LoadFails
    <3>2. LifeTypes'
      BY <2>1, <3>1 DEF LifeInv, LifeTypes, GotoCleanup
    <3>3. QED
      BY <2>1, <2>2, <3>1, <3>2, ToCleanup
  <2>5. QED
    BY <2>3, <2>4
<1>4. CASE LockFails
  <2>1. /\ slot' = [slot EXCEPT !["config"] = "dangling"]
        /\ UNCHANGED <<sim, ctx, thread, flag, running, entered>>
    BY <1>4 DEF LockFails
  <2>2. /\ slot'["config"] = "dangling"
        /\ \A u \in Objects \ {"config"} : slot'[u] = slot[u]
    BY <2>1, ObjectFacts DEF LifeInv, LifeTypes
  <2>3. \A u \in Threaded : thread[u] = "none"
    BY <1>1 DEF LifeInv, StartInv, Threaded
  <2>4. ThreadInv' /\ UsersGoFirst'
    BY <2>1, <2>3 DEF LifeInv, ThreadInv, UsersGoFirst
  <2>5. ~entered
    BY <1>1 DEF LifeInv, EnteredInv
  <2>6. slot' \in [Objects -> {"unset", "null", "live", "freed", "dangling"}]
    BY <2>1 DEF LifeInv, LifeTypes
  <2>7. CASE sim
    <3>1. step' = 2 /\ phase' = phase
      BY <1>1, <1>4, <2>7 DEF LockFails, Advance
    <3>2. LifeTypes'
      BY <2>1, <2>6, <3>1 DEF LifeInv, LifeTypes
    <3>3. StartInv'
      BY <1>1, <2>1, <2>2, <3>1, ObjectFacts DEF LifeInv, StartInv
    <3>4. EnteredInv' /\ CleanInv'
      BY <1>1, <2>1, <2>5, <3>1 DEF EnteredInv, LateCrashIsLast, CleanInv
    <3>5. QED
      BY <2>4, <3>2, <3>3, <3>4 DEF LifeInv
  <2>8. CASE ~sim
    <3>1. GotoCleanup
      BY <1>4, <2>8 DEF LockFails
    <3>2. LifeTypes'
      BY <2>1, <2>6, <3>1 DEF LifeInv, LifeTypes, GotoCleanup
    <3>3. QED
      BY <2>1, <2>4, <2>5, <3>1, <3>2, ToCleanup
  <2>9. QED
    BY <2>7, <2>8
<1>5. QED
  BY <1>2, <1>3, <1>4

LEMMA CreateStep ==
  ASSUME LifeInv, NEW o \in Objects, CreateOk(o) \/ CreateFails(o)
  PROVE  LifeInv'
<1>1. /\ phase = "startup" /\ ~entered
      /\ \/ step = 2 /\ o = "queue"
         \/ step = 3 /\ o = "fusion"
         \/ step = 5 /\ sim /\ o = "simulator"
         \/ step = 5 /\ ~sim /\ o = "video"
         \/ step = 6 /\ ~sim /\ o = "radar"
  BY PlanDue
  DEF LifeInv, LifeTypes, StartInv, EnteredInv, CreateOk,
                 CreateFails, Due
<1>2. thread["simulator"] = "none" /\ thread["video"] = "none"
      /\ thread["radar"] = "none" /\ thread["fusion"] = "none"
      /\ thread["monitor"] = "none"
  BY <1>1 DEF LifeInv, StartInv
<1>3. \A u \in Threaded : thread[u] = "none"
  BY <1>2 DEF Threaded
<1>4. UNCHANGED <<sim, ctx, thread, flag, running, entered>>
  BY DEF CreateOk, CreateFails
<1>5. ThreadInv' /\ UsersGoFirst'
  BY <1>3, <1>4 DEF LifeInv, ThreadInv, UsersGoFirst
<1>6. CASE CreateOk(o)
  <2>1. slot' = [slot EXCEPT ![o] = "live"] /\ step' = step + 1
        /\ phase' = "startup"
    BY <1>1, <1>6 DEF CreateOk, Advance
  <2>2. LifeTypes'
    BY <1>4, <2>1 DEF LifeInv, LifeTypes
  <2>3. slot'[o] = "live" /\ \A u \in Objects \ {o} : slot'[u] = slot[u]
    BY <2>1 DEF LifeInv, LifeTypes
  <2>4. StartInv'
    BY <1>1, <1>2, <1>4, <2>1, <2>3, ObjectFacts DEF LifeInv, StartInv
  <2>5. EnteredInv' /\ CleanInv'
    BY <1>1, <1>4, <2>1 DEF EnteredInv, LateCrashIsLast, CleanInv
  <2>6. QED
    BY <1>5, <2>2, <2>4, <2>5 DEF LifeInv
<1>7. CASE CreateFails(o)
  <2>1. GotoCleanup /\ slot' = [slot EXCEPT ![o] = "null"]
    BY <1>7 DEF CreateFails
  <2>2. LifeTypes'
    BY <1>4, <2>1 DEF LifeInv, LifeTypes, GotoCleanup
  <2>3. QED
    BY <1>1, <1>4, <1>5, <2>1, <2>2, ToCleanup
<1>8. QED
  BY <1>6, <1>7

LEMMA DeclareStep ==
  ASSUME LifeInv, Declare
  PROVE  LifeInv'
<1>1. /\ phase = "startup" /\ step = 4 /\ ~entered
  <2>1. Due("declare", "pointers") /\ step \in Nat \ {0}
    BY DEF LifeInv, LifeTypes, Declare
  <2>2. step = 4
    BY <2>1, PlanDue DEF LifeInv, StartInv, Due
  <2>3. QED
    BY <2>1, <2>2 DEF Due, LifeInv, EnteredInv
<1>2. /\ step' = 5 /\ UNCHANGED <<sim, phase, ctx, thread, flag, running,
                                  entered>>
      /\ slot' = [o \in Objects |->
                    IF o \in {"video", "radar", "simulator", "monitor"}
                    THEN "null" ELSE slot[o]]
  BY <1>1 DEF Declare, Advance
<1>3. \A u \in Threaded : thread[u] = "none"
  BY <1>1 DEF LifeInv, StartInv, Threaded
<1>4. ThreadInv' /\ UsersGoFirst'
  BY <1>2, <1>3 DEF LifeInv, ThreadInv, UsersGoFirst
<1>5. LifeTypes'
  BY <1>2 DEF LifeInv, LifeTypes
<1>6. slot["queue"] = "live" /\ slot["fusion"] = "live"
  BY <1>1 DEF LifeInv, StartInv
<1>7. slot["config"] # "unset"
  BY <1>1 DEF LifeInv, StartInv
<1>8. StartInv'
  BY <1>1, <1>2, <1>3, <1>6, <1>7 DEF StartInv, Objects, Threaded
<1>9. EnteredInv' /\ CleanInv'
  BY <1>1, <1>2 DEF EnteredInv, LateCrashIsLast, CleanInv
<1>10. QED
  BY <1>4, <1>5, <1>8, <1>9 DEF LifeInv

LEMMA StartOkStep ==
  ASSUME LifeInv, NEW o \in Objects, StartOk(o)
  PROVE  LifeInv'
<1>1. /\ phase = "startup" /\ ~entered
      /\ \/ step = 6 /\ sim /\ o = "simulator"
         \/ step = 7 /\ sim /\ o = "fusion"
         \/ step = 8 /\ sim /\ o = "monitor"
         \/ step = 7 /\ ~sim /\ o = "video"
  BY PlanDue
  DEF LifeInv, LifeTypes, StartInv, EnteredInv, StartOk, Due
<1>2. /\ slot' = [slot EXCEPT ![o] = "live"]
      /\ ctx' = [ctx EXCEPT ![o] = "ready"]
      /\ thread' = [thread EXCEPT ![o] = "running"]
      /\ flag' = [flag EXCEPT ![o] = TRUE]
      /\ step' = step + 1 /\ UNCHANGED <<sim, phase, running, entered>>
  BY DEF StartOk, Advance
<1>3. o \in Threaded
  BY <1>1 DEF Threaded
<1>4. LifeTypes'
  <2>1. step' \in Nat \ {0}
    BY <1>2 DEF LifeInv, LifeTypes
  <2>2. flag' \in [Threaded -> BOOLEAN]
    BY <1>2 DEF LifeInv, LifeTypes
  <2>3. QED
    BY <1>2, <2>1, <2>2 DEF LifeInv, LifeTypes
<1>5. /\ slot'[o] = "live" /\ ctx'[o] = "ready" /\ thread'[o] = "running"
      /\ \A u \in Objects \ {o} : slot'[u] = slot[u]
      /\ \A u \in Threaded \ {o} : thread'[u] = thread[u] /\ ctx'[u] = ctx[u]
  BY <1>2, <1>3 DEF LifeInv, LifeTypes
<1>6. ThreadInv'
  BY <1>5, ObjectFacts DEF LifeInv, ThreadInv
<1>7. /\ slot["queue"] = "live" /\ slot["fusion"] = "live"
      /\ o # "queue"
  BY <1>1 DEF LifeInv, StartInv
<1>8. slot'["queue"] = "live" /\ slot'["fusion"] = "live"
  BY <1>5, <1>7, ObjectFacts
<1>9. UsersGoFirst'
  <2>1. \A u \in Threaded : thread'[u] = "running" => slot'[u] = "live"
    BY <1>6 DEF ThreadInv
  <2>2. QED
    BY <1>8, <2>1 DEF UsersGoFirst, Uses, Threaded
<1>10. StartInv'
  BY <1>1, <1>2, <1>5, <1>8, ObjectFacts DEF LifeInv, StartInv
<1>11. EnteredInv' /\ CleanInv'
  BY <1>1, <1>2 DEF EnteredInv, LateCrashIsLast, CleanInv
<1>12. QED
  BY <1>4, <1>6, <1>9, <1>10, <1>11 DEF LifeInv

LEMMA StartFailsStep ==
  ASSUME LifeInv, NEW o \in Objects, StartFails(o)
  PROVE  LifeInv'
<1>1. /\ GotoCleanup /\ flag' = [flag EXCEPT ![o] = (o # "radar")]
      /\ UNCHANGED <<sim, slot, ctx, thread, running, entered>>
  BY DEF StartFails
<1>2. LifeTypes'
  <2>1. step' \in Nat \ {0}
    BY <1>1 DEF GotoCleanup
  <2>2. (o # "radar") \in BOOLEAN
    OBVIOUS
  <2>3. flag' \in [Threaded -> BOOLEAN]
    BY <1>1, <2>2 DEF LifeInv, LifeTypes
  <2>4. QED
    BY <1>1, <2>1, <2>3 DEF LifeInv, LifeTypes, GotoCleanup
<1>3. ThreadInv' /\ UsersGoFirst'
  BY <1>1 DEF LifeInv, ThreadInv, UsersGoFirst
<1>4. QED
  BY <1>1, <1>2, <1>3, ToCleanup

LEMMA MonitorStep ==
  ASSUME LifeInv, MonitorFails
  PROVE  LifeInv'
<1>1. /\ phase = "startup" /\ step = 8 /\ sim /\ ~entered
  <2>1. Due("start", "monitor") /\ step \in Nat \ {0}
    BY DEF LifeInv, LifeTypes, MonitorFails
  <2>2. step = 8 /\ sim
    BY <2>1, PlanDue DEF LifeInv, StartInv, Due
  <2>3. QED
    BY <2>1, <2>2 DEF Due, LifeInv, EnteredInv
<1>2. /\ slot' = [slot EXCEPT !["monitor"] = "null"] /\ step' = 9
      /\ UNCHANGED <<sim, phase, ctx, thread, flag, running, entered>>
  BY <1>1 DEF MonitorFails, Advance
<1>3. LifeTypes'
  <2>1. step' \in Nat \ {0}
    BY <1>2
  <2>2. QED
    BY <1>2, <2>1 DEF LifeInv, LifeTypes
<1>4. /\ slot'["monitor"] = "null"
      /\ \A u \in Objects \ {"monitor"} : slot'[u] = slot[u]
  BY <1>2, ObjectFacts DEF LifeInv, LifeTypes
<1>5. thread["monitor"] = "none"
  BY <1>1, ObjectFacts DEF LifeInv, StartInv
<1>6. ThreadInv'
  BY <1>2, <1>4, <1>5, ObjectFacts DEF LifeInv, ThreadInv
<1>7. UsersGoFirst'
  BY <1>2, <1>4, <1>5 DEF LifeInv, UsersGoFirst, Uses, Objects, Threaded
<1>8. StartInv'
  BY <1>1, <1>2, <1>4, <1>5, ObjectFacts DEF LifeInv, StartInv
<1>9. EnteredInv' /\ CleanInv'
  BY <1>1, <1>2 DEF EnteredInv, LateCrashIsLast, CleanInv
<1>10. QED
  BY <1>3, <1>6, <1>7, <1>8, <1>9 DEF LifeInv

(* main gets to its loop with every pointer set, and with a thread behind  *)
(* every context of an object that it will stop.                           *)
LEMMA EnterStep ==
  ASSUME LifeInv, EnterLoop
  PROVE  LifeInv'
<1>1. /\ phase = "startup" /\ step > Len(Plan) /\ phase' = "loop" /\ entered'
      /\ UNCHANGED <<sim, step, slot, ctx, thread, flag, running>>
  BY DEF EnterLoop
<1>2. sim /\ step = 9
  <2>1. step \in Nat \ {0} /\ step <= IF sim THEN 9 ELSE 8
    BY <1>1 DEF LifeInv, LifeTypes, StartInv
  <2>2. Len(Plan) = IF sim THEN 8 ELSE 10
    BY DEF Plan
  <2>3. QED
    BY <1>1, <2>1, <2>2
<1>3. LifeTypes'
  BY <1>1 DEF LifeInv, LifeTypes
<1>4. ThreadInv' /\ UsersGoFirst'
  BY <1>1 DEF LifeInv, ThreadInv, UsersGoFirst
<1>5. StartInv'
  BY <1>1, <1>2 DEF LifeInv, StartInv
<1>6. /\ thread["simulator"] # "none" /\ thread["fusion"] # "none"
      /\ slot["video"] = "null" /\ slot["radar"] = "null"
      /\ slot["monitor"] = "live" => thread["monitor"] # "none"
      /\ \A o \in Objects : slot[o] # "unset"
  BY <1>1, <1>2 DEF LifeInv, StartInv
<1>7. \A o \in Threaded : slot[o] = "live" => thread[o] # "none"
  BY <1>6 DEF Threaded
<1>8. \A o \in Threaded : slot[o] = "live" => ctx[o] # "raw"
  BY <1>7 DEF LifeInv, ThreadInv
<1>9. EnteredInv'
  BY <1>1, <1>2, <1>6, <1>8 DEF EnteredInv, LateCrashIsLast
<1>10. CleanInv'
  BY <1>1 DEF CleanInv
<1>11. QED
  BY <1>3, <1>4, <1>5, <1>9, <1>10 DEF LifeInv

LEMMA LeaveStep ==
  ASSUME LifeInv, LeaveLoop
  PROVE  LifeInv'
<1>1. GotoCleanup /\ UNCHANGED <<sim, slot, ctx, thread, flag, running, entered>>
  BY DEF LeaveLoop
<1>2. LifeTypes'
  BY <1>1 DEF LifeInv, LifeTypes, GotoCleanup
<1>3. ThreadInv' /\ UsersGoFirst'
  BY <1>1 DEF LifeInv, ThreadInv, UsersGoFirst
<1>4. QED
  BY <1>1, <1>2, <1>3, ToCleanup

-----------------------------------------------------------------------------
(* The cleanup, object by object                                           *)
LEMMA OrderDue ==
  ASSUME NEW o, Cleaning(o), step \in Nat \ {0}
  PROVE  /\ phase = "cleanup" /\ step \in 1 .. 7 /\ o = CleanupOrder[step]
         /\ \/ step = 1 /\ o = "monitor"
            \/ step = 2 /\ o = "simulator"
            \/ step = 3 /\ o = "video"
            \/ step = 4 /\ o = "radar"
            \/ step = 5 /\ o = "fusion"
            \/ step = 6 /\ o = "queue"
            \/ step = 7 /\ o = "config"
<1>1. Len(CleanupOrder) = 7
  BY DEF CleanupOrder
<1>2. phase = "cleanup" /\ step \in 1 .. 7 /\ o = CleanupOrder[step]
  BY <1>1 DEF Cleaning
<1>3. step \in {1, 2, 3, 4, 5, 6, 7}
  BY <1>2
<1>4. QED
  BY <1>2, <1>3 DEF CleanupOrder

LEMMA OrderObjects ==
  /\ \A i \in 1 .. 7 : CleanupOrder[i] \in Objects
  /\ CleanupOrder[1] = "monitor" /\ CleanupOrder[2] = "simulator"
  /\ CleanupOrder[3] = "video" /\ CleanupOrder[4] = "radar"
  /\ CleanupOrder[5] = "fusion" /\ CleanupOrder[6] = "queue"
  /\ CleanupOrder[7] = "config"
<1>1. /\ CleanupOrder[1] = "monitor" /\ CleanupOrder[2] = "simulator"
      /\ CleanupOrder[3] = "video" /\ CleanupOrder[4] = "radar"
      /\ CleanupOrder[5] = "fusion" /\ CleanupOrder[6] = "queue"
      /\ CleanupOrder[7] = "config"
  BY DEF CleanupOrder
<1>2. \A i \in 1 .. 7 : i \in {1, 2, 3, 4, 5, 6, 7}
  OBVIOUS
<1>3. QED
  BY <1>1, <1>2 DEF Objects, Threaded

(* The next object is taken up once this one is not alive any more.        *)
LEMMA CleanNext ==
  ASSUME LifeInv, NEW o, Cleaning(o), step' = step + 1, phase' = phase,
         slot'[o] # "live",
         \A u \in Objects \ {o} : slot'[u] = slot[u]
  PROVE  CleanInv'
<1>1. step \in Nat \ {0}
  BY DEF LifeInv, LifeTypes
<1>2. phase = "cleanup" /\ step \in 1 .. 7 /\ o = CleanupOrder[step]
  BY <1>1, OrderDue
<1>3. ASSUME NEW i \in 1 .. 7, i < step'
      PROVE  slot'[CleanupOrder[i]] # "live"
  <2>1. CASE CleanupOrder[i] = o
    BY <2>1
  <2>2. CASE CleanupOrder[i] # o
    <3>1. i # step
      BY <1>2, <2>2
    <3>2. i < step
      BY <3>1, <1>1, <1>3
    <3>3. slot[CleanupOrder[i]] # "live"
      BY <1>2, <3>2 DEF LifeInv, CleanInv
    <3>4. QED
      BY <2>2, <3>3, OrderObjects
  <2>3. QED
    BY <2>1, <2>2
<1>4. step' <= 8
  BY <1>2
<1>5. phase' = "cleanup"
  BY <1>2
<1>6. QED
  BY <1>3, <1>4, <1>5 DEF CleanInv

LEMMA SkipStep ==
  ASSUME LifeInv, NEW o \in Objects, Skip(o)
  PROVE  LifeInv'
<1>1. /\ Cleaning(o) /\ slot[o] \in {"null", "unset"} /\ step' = step + 1
      /\ UNCHANGED <<sim, phase, slot, ctx, thread, flag, running, entered>>
  BY DEF Skip
<1>2. phase = "cleanup"
  BY <1>1 DEF Cleaning
<1>3. CleanInv'
  BY <1>1, CleanNext
<1>4. step' \in Nat \ {0}
  BY <1>1 DEF LifeInv, LifeTypes
<1>5. LifeTypes'
  BY <1>1, <1>4 DEF LifeInv, LifeTypes
<1>6. ThreadInv' /\ UsersGoFirst'
  BY <1>1 DEF LifeInv, ThreadInv, UsersGoFirst
<1>7. StartInv' /\ EnteredInv'
  BY <1>1, <1>2 DEF LifeInv, StartInv, EnteredInv, LateCrashIsLast
<1>8. QED
  BY <1>3, <1>5, <1>6, <1>7 DEF LifeInv

(* An object is freed when its thread has ended, and the threads that use  *)
(* it besides have ended with the objects before it.                       *)
LEMMA FreeStep ==
  ASSUME LifeInv, NEW o \in Objects, Free(o)
  PROVE  LifeInv'
<1>1. /\ Cleaning(o) /\ slot[o] = "live" /\ step' = step + 1
      /\ o \in Threaded => ctx[o] \in {"joined", "raw"}
      /\ slot' = [slot EXCEPT ![o] = "freed"]
      /\ UNCHANGED <<sim, phase, ctx, thread, flag, running, entered>>
  BY DEF Free
<1>2. step \in Nat \ {0} /\ phase = "cleanup"
  BY <1>1 DEF LifeInv, LifeTypes, Cleaning
<1>3. slot'[o] = "freed" /\ \A u \in Objects \ {o} : slot'[u] = slot[u]
  BY <1>1 DEF LifeInv, LifeTypes
<1>4. CleanInv'
  BY <1>1, <1>3, CleanNext
<1>5. step' \in Nat \ {0}
  BY <1>1, <1>2
<1>6. LifeTypes'
  BY <1>1, <1>5 DEF LifeInv, LifeTypes
<1>7. o \in Threaded => thread[o] # "running"
  BY <1>1 DEF LifeInv, ThreadInv
<1>8. ThreadInv'
  BY <1>1, <1>3, <1>7, ObjectFacts DEF LifeInv, ThreadInv
<1>9. ASSUME NEW i \in 1 .. 7, i < step, CleanupOrder[i] \in Threaded
      PROVE  thread[CleanupOrder[i]] # "running"
  <2>1. slot[CleanupOrder[i]] # "live"
    BY <1>2, <1>9 DEF LifeInv, CleanInv
  <2>2. QED
    BY <2>1, <1>9 DEF LifeInv, ThreadInv
<1>10. o = "queue" => thread["video"] # "running" /\ thread["radar"] # "running"
  <2>1. o = "queue" => step = 6
    BY <1>1, <1>2, OrderDue
  <2>2. 3 \in 1 .. 7 /\ 4 \in 1 .. 7 /\ (step = 6 => 3 < step /\ 4 < step)
    OBVIOUS
  <2>3. "video" \in Threaded /\ "radar" \in Threaded
    BY DEF Threaded
  <2>4. QED
    BY <2>1, <2>2, <2>3, <1>9, OrderObjects
<1>11. o = "fusion" => thread["monitor"] # "running"
  <2>1. o = "fusion" => step = 5
    BY <1>1, <1>2, OrderDue
  <2>2. 1 \in 1 .. 7 /\ (step = 5 => 1 < step)
    OBVIOUS
  <2>3. "monitor" \in Threaded
    BY DEF Threaded
  <2>4. QED
    BY <2>1, <2>2, <2>3, <1>9, OrderObjects
<1>12. \A u \in Threaded : thread'[u] = "running" => slot'[u] = "live"
  BY <1>8 DEF ThreadInv
<1>13. thread'["video"] = "running" \/ thread'["radar"] = "running" =>
         slot'["queue"] = "live"
  BY <1>1, <1>3, <1>10, ObjectFacts, UsesFacts DEF LifeInv
<1>14. thread'["monitor"] = "running" => slot'["fusion"] = "live"
  BY <1>1, <1>3, <1>11, ObjectFacts, UsesFacts DEF LifeInv
<1>15. UsersGoFirst'
  BY <1>12, <1>13, <1>14 DEF UsersGoFirst, Uses, Threaded
<1>16. StartInv'
  BY <1>1, <1>2 DEF StartInv
<1>17. EnteredInv'
  BY <1>1, <1>2, <1>3, ObjectFacts DEF LifeInv, EnteredInv, LateCrashIsLast
<1>18. QED
  BY <1>4, <1>6, <1>8, <1>15, <1>16, <1>17 DEF LifeInv

LEMMA StopStep ==
  ASSUME LifeInv, NEW o \in Objects, StopFlag(o) \/ Join(o)
  PROVE  LifeInv'
<1>1. /\ phase = "cleanup" /\ o \in Threaded
      /\ UNCHANGED <<sim, phase, step, slot, thread, running, entered>>
  BY DEF StopFlag, Join, Cleaning
<1>2. \/ ctx' = ctx /\ flag' = [flag EXCEPT ![o] = FALSE]
      \/ /\ ctx' = [ctx EXCEPT ![o] = "joined"] /\ flag' = flag
         /\ thread[o] = "ended"
  BY DEF StopFlag, Join
<1>3. LifeTypes'
  <2>1. flag' \in [Threaded -> BOOLEAN]
    BY <1>2 DEF LifeInv, LifeTypes
  <2>2. ctx' \in [Threaded -> {"raw", "ready", "joined"}]
    BY <1>2 DEF LifeInv, LifeTypes
  <2>3. QED
    BY <1>1, <2>1, <2>2 DEF LifeInv, LifeTypes
<1>4. /\ \A u \in Threaded \ {o} : ctx'[u] = ctx[u]
      /\ \/ ctx'[o] = ctx[o]
         \/ ctx'[o] = "joined" /\ thread[o] = "ended"
  BY <1>1, <1>2 DEF LifeInv, LifeTypes
<1>5. ThreadInv'
  BY <1>1, <1>4 DEF LifeInv, ThreadInv
<1>6. UsersGoFirst' /\ CleanInv' /\ StartInv'
  BY <1>1 DEF LifeInv, UsersGoFirst, CleanInv, StartInv
<1>7. \A u \in Threaded : ctx[u] # "raw" => ctx'[u] # "raw"
  BY <1>4
<1>8. EnteredInv'
  BY <1>1, <1>7 DEF LifeInv, EnteredInv, LateCrashIsLast
<1>9. QED
  BY <1>3, <1>5, <1>6, <1>8 DEF LifeInv

(* A crash needs an uninitialised pointer or context, and those are gone   *)
(* once main has been in its loop, or a dangling configuration.            *)
LEMMA CrashStep ==
  ASSUME LifeInv, NEW o \in Objects,
         Wild(o) \/ RawStop(o) \/ UnwindCrashes \/ ReadsFreed
  PROVE  LifeInv'
<1>1. /\ phase' = "crashed"
      /\ UNCHANGED <<sim, step, slot, ctx, thread, flag, running, entered>>
  BY DEF Wild, RawStop, UnwindCrashes, ReadsFreed
<1>2. ~entered
  <2>1. CASE Wild(o)
    BY <2>1 DEF Wild, LifeInv, EnteredInv
  <2>2. CASE RawStop(o)
    BY <2>2 DEF RawStop, LifeInv, EnteredInv
  <2>3. CASE UnwindCrashes \/ ReadsFreed
    BY <2>3
    DEF UnwindCrashes, ReadsFreed, Due, LifeInv, EnteredInv
  <2>4. QED
    BY <2>1, <2>2, <2>3
<1>3. LifeTypes'
  BY <1>1 DEF LifeInv, LifeTypes
<1>4. ThreadInv' /\ UsersGoFirst'
  BY <1>1 DEF LifeInv, ThreadInv, UsersGoFirst
<1>5. StartInv' /\ CleanInv' /\ EnteredInv'
  BY <1>1, <1>2 DEF StartInv, CleanInv, EnteredInv, LateCrashIsLast
<1>6. QED
  BY <1>3, <1>4, <1>5 DEF LifeInv

(* Whatever the second free of the configuration does, it is the last step *)
(* of the cleanup: nothing else is alive any more.                         *)
LEMMA FreedTwiceStep ==
  ASSUME LifeInv, FreedTwice
  PROVE  LifeInv'
<1>1. /\ Cleaning("config") /\ slot["config"] = "dangling"
      /\ \/ step' = step + 1 /\ phase' = phase
         \/ step' = step /\ phase' = "crashed"
      /\ UNCHANGED <<sim, slot, ctx, thread, flag, running, entered>>
  BY DEF FreedTwice
<1>2. step = 7 /\ phase = "cleanup"
  BY <1>1, OrderDue DEF LifeInv, LifeTypes
<1>3. \A i \in 1 .. 7 : i < 7 => slot[CleanupOrder[i]] # "live"
  BY <1>2 DEF LifeInv, CleanInv
<1>4. \A o \in Objects : slot[o] # "live"
  <2>1. 1 \in 1 .. 7 /\ 2 \in 1 .. 7 /\ 3 \in 1 .. 7 /\ 4 \in 1 .. 7
        /\ 5 \in 1 .. 7 /\ 6 \in 1 .. 7
    OBVIOUS
  <2>2. /\ slot["monitor"] # "live" /\ slot["simulator"] # "live"
        /\ slot["video"] # "live" /\ slot["radar"] # "live"
        /\ slot["fusion"] # "live" /\ slot["queue"] # "live"
    BY <1>3, <2>1, OrderObjects
  <2>3. QED
    BY <1>1, <2>2 DEF Objects, Threaded
<1>5. \A o \in Threaded : thread[o] # "running"
  BY <1>4, ObjectFacts DEF LifeInv, ThreadInv
<1>6. LifeTypes'
  BY <1>1, <1>2 DEF LifeInv, LifeTypes
<1>7. ThreadInv' /\ UsersGoFirst'
  BY <1>1 DEF LifeInv, ThreadInv, UsersGoFirst
<1>8. StartInv'
  BY <1>1, <1>2 DEF StartInv
<1>9. EnteredInv'
  BY <1>1, <1>2, <1>4, <1>5 DEF LifeInv, EnteredInv, LateCrashIsLast
<1>10. CleanInv'
  BY <1>1, <1>2, <1>4, OrderObjects DEF LifeInv, CleanInv
<1>11. QED
  BY <1>6, <1>7, <1>8, <1>9, <1>10 DEF LifeInv

LEMMA ExitStep ==
  ASSUME LifeInv, Exit
  PROVE  LifeInv'
<1>1. /\ phase = "cleanup" /\ step > Len(CleanupOrder) /\ phase' = "exited"
      /\ UNCHANGED <<sim, step, slot, ctx, thread, flag, running, entered>>
  BY DEF Exit
<1>2. step > 7
  BY <1>1 DEF CleanupOrder
<1>3. \A i \in 1 .. 7 : slot[CleanupOrder[i]] # "live"
  BY <1>1, <1>2 DEF LifeInv, LifeTypes, CleanInv
<1>4. \A o \in Objects : slot[o] # "live"
  <2>1. 1 \in 1 .. 7 /\ 2 \in 1 .. 7 /\ 3 \in 1 .. 7 /\ 4 \in 1 .. 7
        /\ 5 \in 1 .. 7 /\ 6 \in 1 .. 7 /\ 7 \in 1 .. 7
    OBVIOUS
  <2>2. /\ slot["monitor"] # "live" /\ slot["simulator"] # "live"
        /\ slot["video"] # "live" /\ slot["radar"] # "live"
        /\ slot["fusion"] # "live" /\ slot["queue"] # "live"
        /\ slot["config"] # "live"
    BY <1>3, <2>1, OrderObjects
  <2>3. QED
    BY <2>2 DEF Objects, Threaded
<1>5. LifeTypes'
  BY <1>1 DEF LifeInv, LifeTypes
<1>6. ThreadInv' /\ UsersGoFirst'
  BY <1>1 DEF LifeInv, ThreadInv, UsersGoFirst
<1>7. StartInv' /\ CleanInv' /\ EnteredInv'
  BY <1>1, <1>4 DEF LifeInv, StartInv, CleanInv, EnteredInv, LateCrashIsLast
<1>8. QED
  BY <1>5, <1>6, <1>7 DEF LifeInv

-----------------------------------------------------------------------------
(* The threads and the signals                                             *)
LEMMA ThreadEndsStep ==
  ASSUME LifeInv, NEW o \in Threaded, ThreadEnds(o)
  PROVE  LifeInv'
<1>1. /\ thread[o] = "running" /\ thread' = [thread EXCEPT ![o] = "ended"]
      /\ UNCHANGED <<sim, phase, step, slot, ctx, flag, running, entered>>
  BY DEF ThreadEnds
<1>2. /\ thread'[o] = "ended"
      /\ \A u \in Threaded \ {o} : thread'[u] = thread[u]
  BY <1>1 DEF LifeInv, LifeTypes
<1>3. LifeTypes'
  BY <1>1 DEF LifeInv, LifeTypes
<1>4. ThreadInv'
  BY <1>1, <1>2 DEF LifeInv, ThreadInv
<1>5. \A u \in Threaded : /\ thread'[u] = "running" => thread[u] = "running"
                          /\ thread'[u] = "none" <=> thread[u] = "none"
  BY <1>1, <1>2
<1>6. UsersGoFirst'
  BY <1>1, <1>5 DEF LifeInv, UsersGoFirst
<1>7. /\ "simulator" \in Threaded /\ "video" \in Threaded
      /\ "radar" \in Threaded /\ "fusion" \in Threaded
      /\ "monitor" \in Threaded
  BY DEF Threaded
<1>8. StartInv'
  BY <1>1, <1>5, <1>7 DEF LifeInv, StartInv
<1>9. CleanInv' /\ EnteredInv'
  BY <1>1 DEF LifeInv, CleanInv, EnteredInv, LateCrashIsLast
<1>10. QED
  BY <1>3, <1>4, <1>6, <1>8, <1>9 DEF LifeInv

LEMMA SignalStep ==
  ASSUME LifeInv, Signal \/ Hangup \/ UNCHANGED vars
  PROVE  LifeInv'
<1>1. /\ phase' \in {phase, "killed"}
      /\ UNCHANGED <<sim, step, slot, ctx, thread, flag, entered>>
      /\ running' \in BOOLEAN
  BY DEF Signal, Hangup, vars, LifeInv, LifeTypes
<1>2. LifeTypes'
  BY <1>1 DEF LifeInv, LifeTypes
<1>3. ThreadInv' /\ UsersGoFirst'
  BY <1>1 DEF LifeInv, ThreadInv, UsersGoFirst
<1>4. StartInv' /\ CleanInv' /\ EnteredInv'
  BY <1>1 DEF LifeInv, StartInv, CleanInv, EnteredInv, LateCrashIsLast
<1>5. QED
  BY <1>2, <1>3, <1>4 DEF LifeInv

LEMMA LifeStep == LifeInv /\ [Next]_vars => LifeInv'
<1> SUFFICES ASSUME LifeInv, [Next]_vars PROVE LifeInv'
  OBVIOUS
<1>1. CASE MainStep
  BY <1>1, LoadStep, CreateStep, StartOkStep, StartFailsStep, SkipStep,
     CrashStep, StopStep, FreeStep, DeclareStep, MonitorStep, EnterStep,
     LeaveStep, FreedTwiceStep, ExitStep, ObjectFacts
  DEF MainStep
<1>2. CASE \E o \in Threaded : ThreadEnds(o)
  BY <1>2, ThreadEndsStep
<1>3. CASE Signal \/ Hangup \/ Over \/ UNCHANGED vars
  BY <1>3, SignalStep DEF Over
<1>4. QED
  BY <1>1, <1>2, <1>3 DEF Next

LEMMA LifeCorrect == Spec => []LifeInv
  BY LifeInit, LifeStep, PTL DEF Spec

(* Whatever failed during the startup and wherever a signal came, main     *)
(* frees an object only after every thread that uses it has ended.         *)
THEOREM UsersGoFirstCorrect == Spec => []UsersGoFirst
<1>1. LifeInv => UsersGoFirst
  BY DEF LifeInv
<1>2. QED
  BY <1>1, LifeCorrect, PTL

(* Every goto cleanup, and the end of the loop, free all that was created  *)
(* and join all that was started.                                          *)
THEOREM NothingLeftCorrect == Spec => []NothingLeft
<1>1. LifeInv => NothingLeft
  BY ObjectFacts DEF LifeInv, ThreadInv, CleanInv, NothingLeft
<1>2. QED
  BY <1>1, LifeCorrect, PTL

(* Past the startup the cleanup follows no uninitialised pointer and joins *)
(* no context without a thread: what is left to crash is the second free   *)
(* of a dangling configuration, behind everything else.                    *)
THEOREM LateCrashIsLastCorrect == Spec => []LateCrashIsLast
<1>1. LifeInv => LateCrashIsLast
  BY DEF LifeInv, EnteredInv
<1>2. QED
  BY <1>1, LifeCorrect, PTL

(* main reaches its loop in simulation mode only: with real sensors the    *)
(* radar refuses to start, whatever else succeeds (main.c:133).            *)
THEOREM LoopNeedsSimulation == Spec => [](entered => sim)
<1>1. LifeInv => (entered => sim)
  BY DEF LifeInv, EnteredInv
<1>2. QED
  BY <1>1, LifeCorrect, PTL
==============================================================================
