------------------------- MODULE CommandBridgeProofs -------------------------
(***************************************************************************)
(* Proofs about the connection to the main process (MainProcessConnector)  *)
(* and the command bridge on top of it (CommandBridge), for any number of  *)
(* web views, deaths of the main process and calls.                        *)
(***************************************************************************)
EXTENDS CommandBridge, TLAPS

\* The restart of a dead main process stays within the bound on the deaths.
DeadIsBounded == ~mainUp => gen <= MaxDeaths

\* What the web process knows of the main process lies in the past: nothing is
\* announced before the connection is bound, the field holds the binder announced
\* last or none, and only announced incarnations are linked or have their death
\* handled.
Announced ==
    /\ delivered <= gen
    /\ ~bound => delivered = 0
    /\ iWebToMain \in {NoBinder, delivered}
    /\ \A g \in linked \cup died \cup {h \in Gens : rpc[h] # "idle"} :
           g <= delivered /\ (uiPc = "link" => g < delivered)

\* A death is handled only of an incarnation that is dead.
DeadIsDead ==
    \A g \in died \cup {h \in Gens : rpc[h] # "idle"} : g < gen \/ ~mainUp

\* The connection is bound by the thread that constructs the instance, which
\* keeps the monitor until the instance is published.
BoundByConstructor == bound /\ ~instance => \E t \in Inits : pc[t] = "await"

\* A death that is not handled late leaves the binder just announced alone.
AnnouncedIsKept == uiPc = "link" /\ ~late => iWebToMain # NoBinder

ConnInv ==
    /\ Announced /\ DeadIsDead /\ BoundByConstructor /\ AnnouncedIsKept
    /\ NoStuckWaiter

\* Every step of the connection keeps the types and the bound on the incarnations.
LEMMA ConnTypeStep ==
    TypeOK /\ DeadIsBounded /\ [ConnNext]_connVars => TypeOK' /\ DeadIsBounded'
  <1> SUFFICES ASSUME TypeOK, DeadIsBounded, [ConnNext]_connVars
               PROVE  TypeOK' /\ DeadIsBounded'
    OBVIOUS
  <1> USE DeathsAssumption, NoBinderAssumption DEF DeadIsBounded, Gens, Goto, RGoto
  <1>1. CASE UNCHANGED connVars
    BY <1>1 DEF TypeOK, connVars, platform, connector, threads
  <1>2. ASSUME NEW t \in Inits, InitAidlConnect(t) \/ InstanceThere(t)
        PROVE  TypeOK' /\ DeadIsBounded'
    BY <1>2 DEF InitAidlConnect, InstanceThere, TypeOK, platform, connector
  <1>3. ASSUME NEW t \in Inits, Construct(t) PROVE TypeOK' /\ DeadIsBounded'
    BY <1>3 DEF Construct, TypeOK
  <1>4. ASSUME NEW t \in Inits, Constructed(t) PROVE TypeOK' /\ DeadIsBounded'
    BY <1>4 DEF Constructed, TypeOK, platform
  <1>5. ASSUME NEW t \in Inits, ReadBinder(t) PROVE TypeOK' /\ DeadIsBounded'
    <2>1. crashed' \in BOOLEAN
      BY <1>5, Zenon DEF ReadBinder
    <2>2. /\ got' = [got EXCEPT ![t] = iWebToMain] /\ pc' = [pc EXCEPT ![t] = "set"]
          /\ UNCHANGED <<platform, connector, rpc, webAidl, late>>
      BY <1>5 DEF ReadBinder
    <2> QED
      BY <2>1, <2>2 DEF TypeOK, platform, connector
  <1>6. ASSUME NEW t \in Inits, SetWebAidl(t) PROVE TypeOK' /\ DeadIsBounded'
    BY <1>6 DEF SetWebAidl, TypeOK, platform, connector
  <1>7. CASE OnServiceConnected
    BY <1>7 DEF OnServiceConnected, TypeOK, threads
  <1>8. CASE LinkToDeath
    BY <1>8 DEF LinkToDeath, TypeOK, threads
  <1>9. ASSUME NEW g \in Gens, BinderDied(g) PROVE TypeOK' /\ DeadIsBounded'
    <2>1. late' \in BOOLEAN
      BY <1>9, Zenon DEF BinderDied
    <2>2. linked' \in SUBSET Gens /\ died' \in SUBSET Gens
      BY <1>9 DEF BinderDied, TypeOK
    <2>3. rpc' \in [Gens -> {"idle", "lock", "await", "done"}]
      BY <1>9 DEF BinderDied, TypeOK
    <2>4. /\ iWebToMain' \in {iWebToMain, NoBinder}
          /\ UNCHANGED <<mainUp, gen, bound, delivered, latch, instance, uiPc, pc, got,
                         webAidl, crashed>>
      BY <1>9 DEF BinderDied
    <2> QED
      BY <2>1, <2>2, <2>3, <2>4 DEF TypeOK
  <1>10. ASSUME NEW g \in Gens, Rebind(g) PROVE TypeOK' /\ DeadIsBounded'
    <2>1. late' \in BOOLEAN
      BY <1>10, Zenon DEF Rebind
    <2>2. /\ latch' = 1 /\ rpc' = [rpc EXCEPT ![g] = "await"]
          /\ UNCHANGED <<platform, iWebToMain, instance, uiPc, pc, got, webAidl, crashed>>
      BY <1>10 DEF Rebind
    <2> QED
      BY <2>1, <2>2 DEF TypeOK, platform
  <1>11. ASSUME NEW g \in Gens, Rebound(g) PROVE TypeOK' /\ DeadIsBounded'
    BY <1>11 DEF Rebound, TypeOK, platform, connector
  <1>12. CASE MainDies
    BY <1>12 DEF MainDies, TypeOK, connector, threads
  <1>13. CASE MainRestarts
    BY <1>13 DEF MainRestarts, TypeOK, connector, threads
  <1> QED
    BY <1>1, <1>2, <1>3, <1>4, <1>5, <1>6, <1>7, <1>8, <1>9, <1>10, <1>11, <1>12, <1>13
       DEF ConnNext, InitStep, RecipientStep, UiStep

\* The initial state of the connection has the types.
LEMMA ConnTypeInit == ConnInit => TypeOK /\ DeadIsBounded
  <1> SUFFICES ASSUME ConnInit PROVE TypeOK /\ DeadIsBounded
    OBVIOUS
  <1>1. /\ mainUp \in BOOLEAN /\ bound \in BOOLEAN /\ instance \in BOOLEAN
        /\ crashed \in BOOLEAN /\ late \in BOOLEAN /\ mainUp
    BY Zenon DEF ConnInit
  <1> QED
    BY <1>1, DeathsAssumption DEF ConnInit, TypeOK, DeadIsBounded, Gens

\* The types of the connection hold for any number of web views and deaths.
THEOREM ConnTypeCorrect == ConnSpec => [](TypeOK /\ DeadIsBounded)
  BY ConnTypeInit, ConnTypeStep, PTL DEF ConnSpec

\* Every step of the connection keeps what is needed to see that a waiter is woken.
LEMMA ConnInvStep ==
    TypeOK /\ ConnInv /\ [ConnNext]_connVars => ConnInv'
  <1> SUFFICES ASSUME TypeOK, ConnInv, [ConnNext]_connVars PROVE ConnInv'
    OBVIOUS
  <1> USE DeathsAssumption, NoBinderAssumption DEF Gens
  <1>1. ASSUME UNCHANGED <<platform, connector, rpc, late>>,
               \A t \in Inits : pc'[t] = "await" <=> pc[t] = "await"
        PROVE  ConnInv'
    <2>1. Announced' /\ DeadIsDead' /\ AnnouncedIsKept'
      BY <1>1 DEF ConnInv, Announced, DeadIsDead, AnnouncedIsKept, platform, connector
    <2>2. BoundByConstructor'
      BY <1>1 DEF ConnInv, BoundByConstructor, platform, connector
    <2>3. NoStuckWaiter'
      BY <1>1 DEF ConnInv, NoStuckWaiter, MonitorFree, platform, connector
    <2> QED
      BY <2>1, <2>2, <2>3 DEF ConnInv
  <1>2. CASE UNCHANGED connVars
    BY <1>1, <1>2 DEF connVars, threads
  <1>3. ASSUME NEW t \in Inits,
               InitAidlConnect(t) \/ InstanceThere(t) \/ ReadBinder(t) \/ SetWebAidl(t)
        PROVE  ConnInv'
    <2>1. UNCHANGED <<platform, connector, rpc, late>>
      BY <1>3 DEF InitAidlConnect, InstanceThere, ReadBinder, SetWebAidl
    <2>2. \A u \in Inits : pc'[u] = "await" <=> pc[u] = "await"
      BY <1>3 DEF InitAidlConnect, InstanceThere, ReadBinder, SetWebAidl, Goto, TypeOK
    <2> QED
      BY <1>1, <2>1, <2>2
  <1>4. ASSUME NEW t \in Inits, Construct(t) PROVE ConnInv'
    <2>1. ~bound
      BY <1>4 DEF Construct, MonitorFree, ConnInv, BoundByConstructor
    <2>2. delivered' = 0 /\ gen' = gen /\ late' = late /\ uiPc' = uiPc
      BY <1>4, <2>1 DEF Construct, ConnInv, Announced
    <2>3. Announced' /\ DeadIsDead' /\ AnnouncedIsKept'
      BY <1>4, <2>2 DEF Construct, ConnInv, Announced, DeadIsDead, AnnouncedIsKept
    <2>4. BoundByConstructor'
      BY <1>4 DEF Construct, BoundByConstructor, Goto, TypeOK
    <2>5. NoStuckWaiter'
      BY <2>2 DEF NoStuckWaiter, TypeOK
    <2> QED
      BY <2>3, <2>4, <2>5 DEF ConnInv
  <1>5. ASSUME NEW t \in Inits, Constructed(t) PROVE ConnInv'
    <2>1. latch' = 0 /\ instance'
      BY <1>5 DEF Constructed
    <2>2. Announced' /\ DeadIsDead' /\ AnnouncedIsKept'
      BY <1>5 DEF Constructed, ConnInv, Announced, DeadIsDead, AnnouncedIsKept, platform
    <2> QED
      BY <2>1, <2>2 DEF ConnInv, BoundByConstructor, NoStuckWaiter
  <1>6. CASE OnServiceConnected
    <2>1. /\ bound /\ delivered' = gen /\ iWebToMain' = gen /\ uiPc' = "link" /\ delivered < gen
          /\ UNCHANGED <<mainUp, gen, bound, linked, died, latch, instance, threads, late>>
      BY <1>6 DEF OnServiceConnected, ConnInv, Announced, TypeOK
    <2>2. Announced'
      BY <2>1 DEF ConnInv, Announced, TypeOK, threads
    <2>3. DeadIsDead' /\ BoundByConstructor'
      BY <2>1 DEF ConnInv, DeadIsDead, BoundByConstructor, threads
    <2>4. AnnouncedIsKept'
      BY <2>1 DEF AnnouncedIsKept, TypeOK
    <2>5. NoStuckWaiter'
      BY <2>1 DEF NoStuckWaiter
    <2> QED
      BY <2>2, <2>3, <2>4, <2>5 DEF ConnInv
  <1>7. CASE LinkToDeath
    <2>1. /\ uiPc = "link" /\ uiPc' = "idle"
          /\ UNCHANGED <<mainUp, gen, bound, delivered, died, iWebToMain, instance, threads, late>>
      BY <1>7 DEF LinkToDeath
    <2>2. linked' \subseteq linked \cup ({iWebToMain} \ {NoBinder})
      BY <1>7 DEF LinkToDeath
    <2>3. Announced'
      BY <2>1, <2>2 DEF ConnInv, Announced, TypeOK, threads
    <2>4. DeadIsDead' /\ BoundByConstructor' /\ AnnouncedIsKept'
      BY <2>1 DEF ConnInv, DeadIsDead, BoundByConstructor, AnnouncedIsKept, threads
    <2>5. late \/ latch' = 0
      BY <1>7, <2>1 DEF LinkToDeath, ConnInv, AnnouncedIsKept
    <2>6. NoStuckWaiter'
      BY <2>1, <2>5 DEF NoStuckWaiter
    <2> QED
      BY <2>3, <2>4, <2>6 DEF ConnInv
  <1>8. ASSUME NEW g \in Gens, BinderDied(g) PROVE ConnInv'
    <2>1. /\ g \in died /\ died' = died \ {g} /\ linked' \subseteq linked
          /\ iWebToMain' \in {iWebToMain, NoBinder}
          /\ UNCHANGED <<mainUp, gen, bound, delivered, latch, instance, uiPc, pc>>
      BY <1>8 DEF BinderDied
    <2>2. /\ \A h \in Gens \ {g} : rpc'[h] = rpc[h]
          /\ \A h \in Gens : rpc'[h] = "await" <=> rpc[h] = "await"
      BY <1>8 DEF BinderDied, RGoto, TypeOK
    <2>3. ~late' => ~late /\ delivered <= g
      <3>1. ~late' => ~late /\ ~(delivered > g)
        BY <1>8, Zenon DEF BinderDied
      <3> QED
        BY <3>1 DEF TypeOK
    <2>4. Announced'
      BY <2>1, <2>2 DEF ConnInv, Announced, TypeOK
    <2>5. DeadIsDead'
      BY <2>1, <2>2 DEF ConnInv, DeadIsDead, TypeOK
    <2>6. BoundByConstructor'
      BY <2>1 DEF ConnInv, BoundByConstructor
    <2>7. uiPc = "link" => late'
      BY <2>1, <2>3 DEF ConnInv, Announced, TypeOK
    <2>8. AnnouncedIsKept'
      BY <2>1, <2>7 DEF AnnouncedIsKept
    <2>9. NoStuckWaiter'
      BY <2>1, <2>2, <2>3 DEF ConnInv, NoStuckWaiter, MonitorFree
    <2> QED
      BY <2>4, <2>5, <2>6, <2>8, <2>9 DEF ConnInv
  <1>9. ASSUME NEW g \in Gens, Rebind(g) PROVE ConnInv'
    <2>1. rpc[g] = "lock" /\ UNCHANGED <<platform, iWebToMain, instance, uiPc, pc>>
      BY <1>9 DEF Rebind
    <2>2. \A h \in Gens : rpc'[h] # "idle" <=> rpc[h] # "idle"
      BY <1>9 DEF Rebind, RGoto, TypeOK
    <2>3. ~late' => ~late /\ delivered <= g
      <3>1. ~late' => ~late /\ ~(delivered > g)
        BY <1>9, Zenon DEF Rebind
      <3> QED
        BY <3>1 DEF TypeOK
    <2>4. Announced' /\ DeadIsDead' /\ BoundByConstructor'
      BY <2>1, <2>2 DEF ConnInv, Announced, DeadIsDead, BoundByConstructor, platform
    <2>5. AnnouncedIsKept'
      BY <2>1, <2>3 DEF ConnInv, AnnouncedIsKept
    <2>6. g < gen \/ ~mainUp
      BY <2>1 DEF ConnInv, DeadIsDead
    <2>7. NoStuckWaiter'
      BY <2>1, <2>3, <2>6 DEF NoStuckWaiter, TypeOK, platform
    <2> QED
      BY <2>4, <2>5, <2>7 DEF ConnInv
  <1>10. ASSUME NEW g \in Gens, Rebound(g) PROVE ConnInv'
    <2>1. latch = 0 /\ rpc[g] = "await" /\ UNCHANGED <<platform, connector, pc, late>>
      BY <1>10 DEF Rebound
    <2>2. \A h \in Gens : rpc'[h] # "idle" <=> rpc[h] # "idle"
      BY <1>10 DEF Rebound, RGoto, TypeOK
    <2>3. Announced' /\ DeadIsDead' /\ BoundByConstructor' /\ AnnouncedIsKept'
      BY <2>1, <2>2 DEF ConnInv, Announced, DeadIsDead, BoundByConstructor, AnnouncedIsKept,
                        platform, connector
    <2>4. NoStuckWaiter'
      BY <2>1 DEF NoStuckWaiter, connector
    <2> QED
      BY <2>3, <2>4 DEF ConnInv
  <1>11. CASE MainDies
    <2>1. /\ ~mainUp' /\ died' \subseteq died \cup (linked \cap {gen})
          /\ UNCHANGED <<gen, bound, delivered, linked, connector, threads, late>>
      BY <1>11 DEF MainDies
    <2>2. Announced'
      BY <2>1 DEF ConnInv, Announced, connector, threads
    <2>3. DeadIsDead' /\ NoStuckWaiter'
      BY <2>1 DEF DeadIsDead, NoStuckWaiter
    <2>4. BoundByConstructor' /\ AnnouncedIsKept'
      BY <2>1 DEF ConnInv, BoundByConstructor, AnnouncedIsKept, connector, threads
    <2> QED
      BY <2>2, <2>3, <2>4 DEF ConnInv
  <1>12. CASE MainRestarts
    <2>1. /\ ~mainUp /\ gen' = gen + 1
          /\ UNCHANGED <<bound, delivered, linked, died, connector, threads, late>>
      BY <1>12 DEF MainRestarts
    <2>2. delivered < gen'
      BY <2>1 DEF ConnInv, Announced, TypeOK
    <2>3. Announced'
      BY <2>1, <2>2 DEF ConnInv, Announced, TypeOK, connector, threads
    <2>4. DeadIsDead'
      BY <2>1, <2>2 DEF ConnInv, Announced, DeadIsDead, TypeOK, threads
    <2>5. BoundByConstructor' /\ AnnouncedIsKept'
      BY <2>1 DEF ConnInv, BoundByConstructor, AnnouncedIsKept, connector, threads
    <2>6. NoStuckWaiter'
      BY <2>1, <2>2 DEF NoStuckWaiter, TypeOK
    <2> QED
      BY <2>3, <2>4, <2>5, <2>6 DEF ConnInv
  <1> QED
    BY <1>2, <1>3, <1>4, <1>5, <1>6, <1>7, <1>8, <1>9, <1>10, <1>11, <1>12
       DEF ConnNext, InitStep, RecipientStep, UiStep

\* Nothing is announced, linked or awaited at the start.
LEMMA ConnInvInit == ConnInit => ConnInv
  <1> SUFFICES ASSUME ConnInit PROVE ConnInv
    OBVIOUS
  <1>1. Announced /\ DeadIsDead /\ AnnouncedIsKept
    BY DEF ConnInit, Announced, DeadIsDead, AnnouncedIsKept
  <1>2. BoundByConstructor /\ NoStuckWaiter
    BY DEF ConnInit, BoundByConstructor, NoStuckWaiter
  <1> QED
    BY <1>1, <1>2 DEF ConnInv

\* A thread that awaits the latch, in connectToMainProcessService or from binderDied,
\* has an announcement coming that will open it, for any number of deaths, as long as
\* none is handled after the next incarnation has been announced.
THEOREM WaitersAreWoken == ConnSpec => []NoStuckWaiter
  <1>1. ConnInv => NoStuckWaiter
    BY DEF ConnInv
  <1> QED
    BY <1>1, ConnInvInit, ConnInvStep, ConnTypeCorrect, PTL DEF ConnSpec
-----------------------------------------------------------------------------
\* Call x may come before call y on the way to the page: they differ, and the earlier
\* call is first unless one of them is a dialog.  c holds the commands of the calls.
Before(c, x, y) ==
    /\ x # y
    /\ c[x] # "dialog" /\ c[y] # "dialog" => x < y

Ordered(c, s) == \A i, j \in 1..Len(s) : i < j => Before(c, s[i], s[j])
AllBefore(c, S, T) == \A x \in S, y \in T : Before(c, x, y)

\* The calls in each place of the pipeline, from the page's end back to its start.
Fired   == Elements(fired)
Posted  == Elements(ui)
Blocked == {running} \ {0}
Queued  == Elements(bridge)

\* Every call under way is one the page has made, and one that is blocked or has a
\* dialog open is of the kind that does so.
KnownCalls ==
    /\ Len(calls) <= MaxCalls
    /\ Fired \cup Posted \cup Blocked \cup Queued \cup dialogs \cup callbacks
          \subseteq 1..Len(calls)
    /\ \A c \in dialogs : calls[c] = "dialog"
    /\ \A c \in Blocked : calls[c] \in {"login", "remote"}
    /\ \A c \in ended : c \in 1..Len(calls) /\ calls[c] \in {"silent", "dialog"}
    /\ \A c \in lost : c \in 1..Len(calls) /\ calls[c] = "remote"

\* The pipeline is in order from end to end, and no call is in two places of it.
Pipeline ==
    /\ Ordered(calls, fired) /\ Ordered(calls, ui) /\ Ordered(calls, bridge)
    /\ AllBefore(calls, Fired, Posted \cup Blocked \cup Queued)
    /\ AllBefore(calls, Posted, Blocked \cup Queued)
    /\ AllBefore(calls, Blocked, Queued)
    /\ dialogs \cap (Fired \cup Posted \cup Blocked \cup Queued) = {}

BridgeInv == KnownCalls /\ Pipeline /\ CallbacksAccountedFor

\* What posting to a queue does to its elements and its order.
LEMMA PostFacts ==
    ASSUME NEW S, NEW s \in Seq(S), NEW x \in S, NEW c
    PROVE  /\ Append(s, x) \in Seq(S)
           /\ Elements(Append(s, x)) = Elements(s) \cup {x}
           /\ Ordered(c, s) /\ AllBefore(c, Elements(s), {x}) => Ordered(c, Append(s, x))
  <1>1. /\ Append(s, x) \in Seq(S) /\ Len(s) \in Nat /\ Len(Append(s, x)) = Len(s) + 1
        /\ \A i \in 1..Len(s) : Append(s, x)[i] = s[i]
        /\ Append(s, x)[Len(s) + 1] = x
    OBVIOUS
  <1>2. Elements(Append(s, x)) = Elements(s) \cup {x}
    BY <1>1 DEF Elements
  <1>3. ASSUME Ordered(c, s), AllBefore(c, Elements(s), {x}) PROVE Ordered(c, Append(s, x))
    <2> SUFFICES ASSUME NEW i \in 1..(Len(s) + 1), NEW j \in 1..(Len(s) + 1), i < j
                 PROVE  Before(c, Append(s, x)[i], Append(s, x)[j])
      BY <1>1 DEF Ordered
    <2>1. i \in 1..Len(s) /\ s[i] \in Elements(s) /\ Append(s, x)[i] = s[i]
      BY <1>1 DEF Elements
    <2>2. CASE j = Len(s) + 1
      BY <1>1, <1>3, <2>1, <2>2 DEF AllBefore
    <2>3. CASE j \in 1..Len(s)
      BY <1>1, <1>3, <2>1, <2>3 DEF Ordered
    <2> QED
      BY <1>1, <2>2, <2>3
  <1> QED
    BY <1>1, <1>2, <1>3

\* What taking the head off a queue does to its elements and its order.
LEMMA TakeFacts ==
    ASSUME NEW S, NEW s \in Seq(S), s # <<>>, NEW c
    PROVE  /\ Head(s) \in S /\ Tail(s) \in Seq(S)
           /\ Elements(s) = {Head(s)} \cup Elements(Tail(s))
           /\ Ordered(c, s) => Ordered(c, Tail(s))
           /\ Ordered(c, s) => AllBefore(c, {Head(s)}, Elements(Tail(s)))
  <1>1. /\ Head(s) \in S /\ Tail(s) \in Seq(S) /\ Len(s) \in Nat \ {0} /\ Head(s) = s[1]
        /\ Len(Tail(s)) = Len(s) - 1
        /\ \A i \in 1..(Len(s) - 1) : Tail(s)[i] = s[i + 1]
    OBVIOUS
  <1>2. Elements(s) = {Head(s)} \cup Elements(Tail(s))
    <2>1. ASSUME NEW i \in 1..Len(s) PROVE s[i] = s[1] \/ \E j \in 1..(Len(s) - 1) : Tail(s)[j] = s[i]
      <3>1. CASE i # 1
        <4>1. i - 1 \in 1..(Len(s) - 1) /\ Tail(s)[i - 1] = s[i]
          BY <1>1, <3>1
        <4> QED
          BY <4>1
      <3> QED
        BY <3>1
    <2>2. \A j \in 1..(Len(s) - 1) : \E i \in 1..Len(s) : Tail(s)[j] = s[i]
      BY <1>1
    <2> QED
      BY <1>1, <2>1, <2>2 DEF Elements
  <1>3. ASSUME Ordered(c, s) PROVE Ordered(c, Tail(s))
    <2> SUFFICES ASSUME NEW i \in 1..(Len(s) - 1), NEW j \in 1..(Len(s) - 1), i < j
                 PROVE  Before(c, Tail(s)[i], Tail(s)[j])
      BY <1>1 DEF Ordered
    <2>1. i + 1 \in 1..Len(s) /\ j + 1 \in 1..Len(s) /\ i + 1 < j + 1
      BY <1>1
    <2> QED
      BY <1>1, <1>3, <2>1 DEF Ordered
  <1>4. ASSUME Ordered(c, s) PROVE AllBefore(c, {Head(s)}, Elements(Tail(s)))
    <2> SUFFICES ASSUME NEW j \in 1..(Len(s) - 1) PROVE Before(c, s[1], Tail(s)[j])
      BY <1>1 DEF AllBefore, Elements
    <2>1. 1 \in 1..Len(s) /\ j + 1 \in 1..Len(s) /\ 1 < j + 1
      BY <1>1
    <2> QED
      BY <1>1, <1>4, <2>1 DEF Ordered
  <1> QED
    BY <1>1, <1>2, <1>3, <1>4

\* A step of the bridge leaves the connection's types alone.
LEMMA TypeFrame == ASSUME BridgeTypeOK, UNCHANGED connVars PROVE TypeOK'
  BY DEF BridgeTypeOK, TypeOK, connVars, platform, connector, threads

\* Taking the next request off the JavaBridge thread's queue.
LEMMA RequestFacts ==
    ASSUME BridgeTypeOK, BridgeInv, NEW k, NextRequest(k)
    PROVE  /\ Head(bridge) \in Call /\ Head(bridge) \in 1..Len(calls) /\ calls[Head(bridge)] = k
           /\ running = 0 /\ Blocked = {}
           /\ bridge' \in Seq(Call) /\ Ordered(calls, bridge')
           /\ Queued = {Head(bridge)} \cup Elements(bridge')
           /\ AllBefore(calls, {Head(bridge)}, Elements(bridge'))
  <1>1. bridge \in Seq(Call) /\ bridge # <<>> /\ bridge' = Tail(bridge) /\ running = 0
    BY DEF BridgeTypeOK, NextRequest
  <1>2. calls[Head(bridge)] = k
    BY DEF NextRequest
  <1>3. Ordered(calls, bridge)
    BY DEF BridgeInv, Pipeline
  <1>4. /\ Head(bridge) \in Call /\ Tail(bridge) \in Seq(Call)
        /\ Elements(bridge) = {Head(bridge)} \cup Elements(Tail(bridge))
        /\ Ordered(calls, Tail(bridge))
        /\ AllBefore(calls, {Head(bridge)}, Elements(Tail(bridge)))
    BY <1>1, <1>3, TakeFacts
  <1>5. Queued \subseteq 1..Len(calls)
    BY DEF BridgeInv, KnownCalls
  <1> QED
    BY <1>1, <1>2, <1>4, <1>5 DEF Queued, Blocked

\* Posting a call's answer to the UI thread's queue.
LEMMA AnswerFacts ==
    ASSUME BridgeTypeOK, BridgeInv, NEW c \in Call, ui' = Append(ui, c),
           AllBefore(calls, Posted, {c})
    PROVE  /\ ui' \in Seq(Call) /\ Ordered(calls, ui')
           /\ Elements(ui') = Posted \cup {c}
  <1>1. ui \in Seq(Call) /\ Ordered(calls, ui)
    BY DEF BridgeTypeOK, BridgeInv, Pipeline
  <1> QED
    BY <1>1, PostFacts DEF Posted

\* The JavaBridge thread takes a request that it will be blocked in.
LEMMA BlockStep ==
    ASSUME BridgeTypeOK, BridgeInv, UNCHANGED connVars, ExecLogin \/ ExecRemote
    PROVE  BridgeTypeOK' /\ BridgeInv'
  <1> USE DEF Fired, Posted, Blocked, Queued
  <1>1. PICK k \in {"login", "remote"} : NextRequest(k)
    BY DEF ExecLogin, ExecRemote
  <1>2. /\ running' = Head(bridge) /\ target' \in {target, webAidl}
        /\ UNCHANGED <<calls, callbacks, dialogs, ui, fired, kept, ended, lost>>
    BY DEF ExecLogin, ExecRemote
  <1> DEFINE h == Head(bridge)
  <1>3. /\ h \in Call /\ h \in 1..Len(calls) /\ calls[h] = k /\ running = 0
        /\ bridge' \in Seq(Call) /\ Ordered(calls, bridge')
        /\ Elements(bridge) = {h} \cup Elements(bridge')
        /\ AllBefore(calls, {h}, Elements(bridge'))
    BY <1>1, RequestFacts
  <1> HIDE DEF h
  <1>4. running' = h /\ h # 0
    BY <1>2, <1>3 DEF h, Call
  <1>5. BridgeTypeOK'
    <2>1. TypeOK' /\ webAidl \in Gens \cup {NoBinder}
      BY TypeFrame DEF BridgeTypeOK, TypeOK
    <2> QED
      BY <1>2, <1>3, <1>4, <2>1 DEF BridgeTypeOK
  <1>6. KnownCalls'
    BY <1>1, <1>2, <1>3, <1>4 DEF BridgeInv, KnownCalls
  <1>7. Pipeline'
    BY <1>2, <1>3, <1>4 DEF BridgeInv, Pipeline, AllBefore
  <1>8. CallbacksAccountedFor'
    <2>1. /\ calls' = calls /\ callbacks' = callbacks /\ dialogs' = dialogs /\ ui' = ui
          /\ kept' = kept /\ ended' = ended /\ lost' = lost /\ running' = h /\ running = 0
          /\ Elements(bridge) = {h} \cup Elements(bridge')
      BY <1>2, <1>3, <1>4
    <2>2. 0 \notin callbacks
      BY DEF BridgeInv, KnownCalls
    <2> QED
      BY <2>1, <2>2 DEF BridgeInv, CallbacksAccountedFor
  <1> QED
    BY <1>5, <1>6, <1>7, <1>8 DEF BridgeInv

\* A command that is blocked gives its answer.
LEMMA AnswerStep ==
    ASSUME BridgeTypeOK, BridgeInv, UNCHANGED connVars, LoginDone \/ RemoteReply
    PROVE  BridgeTypeOK' /\ BridgeInv'
  <1> USE DEF Fired, Posted, Blocked, Queued
  <1>1. /\ running # 0 /\ running' = 0 /\ ui' = Append(ui, running)
        /\ UNCHANGED <<calls, callbacks, bridge, target, dialogs, fired, kept, ended, lost>>
    BY DEF LoginDone, RemoteReply
  <1>2. running \in Call /\ AllBefore(calls, Elements(ui), {running})
    BY <1>1 DEF BridgeTypeOK, BridgeInv, Pipeline, AllBefore
  <1>3. ui' \in Seq(Call) /\ Ordered(calls, ui') /\ Elements(ui') = Elements(ui) \cup {running}
    BY <1>1, <1>2, AnswerFacts
  <1>4. BridgeTypeOK'
    BY <1>1, <1>3, TypeFrame DEF BridgeTypeOK
  <1>5. KnownCalls'
    BY <1>1, <1>3 DEF BridgeInv, KnownCalls
  <1>6. Pipeline'
    BY <1>1, <1>2, <1>3 DEF BridgeInv, Pipeline, AllBefore
  <1>7. CallbacksAccountedFor'
    BY <1>1, <1>3 DEF BridgeInv, CallbacksAccountedFor
  <1> QED
    BY <1>4, <1>5, <1>6, <1>7 DEF BridgeInv

\* A request that gives no answer, or opens a dialog, or is lost, leaves the queue.
LEMMA TakeStep ==
    ASSUME BridgeTypeOK, BridgeInv, UNCHANGED connVars,
           ExecSilent \/ ExecDialog \/ ExecRemoteFails
    PROVE  BridgeTypeOK' /\ BridgeInv'
  <1> USE DEF Fired, Posted, Blocked, Queued
  <1> DEFINE h == Head(bridge)
  <1>1. PICK k \in Kind :
            /\ NextRequest(k)
            /\ \/ /\ k \in {"silent", "dialog"} /\ ended' = ended \cup {h}
                  /\ UNCHANGED <<dialogs, lost>>
               \/ k = "dialog" /\ dialogs' = dialogs \cup {h} /\ UNCHANGED <<ended, lost>>
               \/ k = "remote" /\ lost' = lost \cup {h} /\ UNCHANGED <<dialogs, ended>>
    BY DEF ExecSilent, ExecDialog, ExecRemoteFails, Kind
  <1>2. UNCHANGED <<calls, callbacks, running, target, ui, fired, kept>>
    BY DEF ExecSilent, ExecDialog, ExecRemoteFails
  <1>3. /\ h \in Call /\ h \in 1..Len(calls) /\ calls[h] = k /\ running = 0
        /\ bridge' \in Seq(Call) /\ Ordered(calls, bridge')
        /\ Elements(bridge) = {h} \cup Elements(bridge')
        /\ AllBefore(calls, {h}, Elements(bridge'))
    BY <1>1, RequestFacts
  <1> HIDE DEF h
  <1>4. BridgeTypeOK'
    BY <1>1, <1>2, <1>3, TypeFrame DEF BridgeTypeOK
  <1>5. KnownCalls'
    BY <1>1, <1>2, <1>3 DEF BridgeInv, KnownCalls
  <1>6. h \notin Elements(fired) \cup Elements(ui) \cup Elements(bridge')
    BY <1>3 DEF BridgeInv, Pipeline, AllBefore, Before
  <1>7. Pipeline'
    BY <1>1, <1>2, <1>3, <1>6 DEF BridgeInv, Pipeline, AllBefore
  <1>8. CallbacksAccountedFor'
    BY <1>1, <1>2, <1>3 DEF BridgeInv, CallbacksAccountedFor
  <1> QED
    BY <1>4, <1>5, <1>7, <1>8 DEF BridgeInv

\* The main process dies under the blocked call.
LEMMA RemoteDiesStep ==
    ASSUME BridgeTypeOK, BridgeInv, UNCHANGED connVars, RemoteDies
    PROVE  BridgeTypeOK' /\ BridgeInv'
  <1> USE DEF Fired, Posted, Blocked, Queued
  <1>1. /\ running # 0 /\ calls[running] = "remote" /\ running' = 0 /\ lost' = lost \cup {running}
        /\ UNCHANGED <<calls, callbacks, bridge, target, dialogs, ui, fired, kept, ended>>
    BY DEF RemoteDies
  <1>2. BridgeTypeOK'
    BY <1>1, TypeFrame DEF BridgeTypeOK
  <1>3. KnownCalls'
    BY <1>1 DEF BridgeInv, KnownCalls
  <1>4. Pipeline'
    BY <1>1 DEF BridgeInv, Pipeline, AllBefore
  <1>5. CallbacksAccountedFor'
    BY <1>1 DEF BridgeInv, CallbacksAccountedFor
  <1> QED
    BY <1>2, <1>3, <1>4, <1>5 DEF BridgeInv

\* A dialog is answered or dismissed.
LEMMA DialogStep ==
    ASSUME BridgeTypeOK, BridgeInv, UNCHANGED connVars, NEW c \in dialogs,
           ClickDialog(c) \/ DismissDialog(c)
    PROVE  BridgeTypeOK' /\ BridgeInv'
  <1> USE DEF Fired, Posted, Blocked, Queued
  <1>1. /\ dialogs' = dialogs \ {c}
        /\ UNCHANGED <<calls, callbacks, bridge, running, target, fired, kept, lost>>
    BY DEF ClickDialog, DismissDialog
  <1>2. c \in Call /\ c \in 1..Len(calls) /\ calls[c] = "dialog"
    BY DEF BridgeTypeOK, BridgeInv, KnownCalls
  <1>3. CASE ClickDialog(c)
    <2>1. ui' = Append(ui, c) /\ ended' = ended
      BY <1>3 DEF ClickDialog
    <2>2. /\ AllBefore(calls, Elements(fired) \cup Elements(ui), {c})
          /\ AllBefore(calls, {c}, Blocked \cup Elements(bridge))
      BY <1>2 DEF BridgeInv, Pipeline, AllBefore, Before
    <2>3. ui' \in Seq(Call) /\ Ordered(calls, ui') /\ Elements(ui') = Elements(ui) \cup {c}
      <3>1. AllBefore(calls, Elements(ui), {c})
        BY <2>2 DEF AllBefore
      <3> QED
        BY <1>2, <2>1, <3>1, AnswerFacts
    <2>4. BridgeTypeOK'
      BY <1>1, <2>1, <2>3, TypeFrame DEF BridgeTypeOK
    <2>5. KnownCalls'
      BY <1>1, <1>2, <2>1, <2>3 DEF BridgeInv, KnownCalls
    <2>6. Pipeline'
      BY <1>1, <2>2, <2>3 DEF BridgeInv, Pipeline, AllBefore
    <2>7. CallbacksAccountedFor'
      BY <1>1, <2>1, <2>3 DEF BridgeInv, CallbacksAccountedFor
    <2> QED
      BY <2>4, <2>5, <2>6, <2>7 DEF BridgeInv
  <1>4. CASE DismissDialog(c)
    <2>1. ended' = ended \cup {c} /\ ui' = ui
      BY <1>4 DEF DismissDialog
    <2>2. BridgeTypeOK'
      BY <1>1, <1>2, <2>1, TypeFrame DEF BridgeTypeOK
    <2>3. KnownCalls'
      BY <1>1, <1>2, <2>1 DEF BridgeInv, KnownCalls
    <2>4. Pipeline'
      BY <1>1, <2>1 DEF BridgeInv, Pipeline, AllBefore
    <2>5. CallbacksAccountedFor'
      BY <1>1, <1>2, <2>1 DEF BridgeInv, CallbacksAccountedFor
    <2> QED
      BY <2>2, <2>3, <2>4, <2>5 DEF BridgeInv
  <1> QED
    BY <1>3, <1>4

\* The UI thread runs the next answer, whether or not the page still has its callback.
LEMMA CallbackStep ==
    ASSUME BridgeTypeOK, BridgeInv, UNCHANGED connVars, HandleCallback
    PROVE  BridgeTypeOK' /\ BridgeInv'
  <1> USE DEF Fired, Posted, Blocked, Queued
  <1> DEFINE h == Head(ui)
  <1>1. /\ ui # <<>> /\ ui' = Tail(ui)
        /\ \/ /\ fired' = Append(fired, h)
              /\ \/ callbacks' = callbacks \ {h} /\ kept' = kept
                 \/ callbacks' = callbacks /\ kept' = kept \cup {h}
           \/ h \notin callbacks /\ fired' = fired /\ callbacks' = callbacks /\ kept' = kept
        /\ UNCHANGED <<calls, bridge, running, target, dialogs, ended, lost>>
    BY DEF HandleCallback
  <1>2. ui \in Seq(Call) /\ fired \in Seq(Call) /\ Ordered(calls, ui) /\ Ordered(calls, fired)
    BY DEF BridgeTypeOK, BridgeInv, Pipeline
  <1>3. /\ h \in Call /\ ui' \in Seq(Call) /\ Ordered(calls, ui')
        /\ Elements(ui) = {h} \cup Elements(ui')
        /\ AllBefore(calls, {h}, Elements(ui'))
    BY <1>1, <1>2, TakeFacts
  <1> HIDE DEF h
  <1>4. AllBefore(calls, Elements(fired), {h})
    BY <1>3 DEF BridgeInv, Pipeline, AllBefore
  <1>5. fired' \in Seq(Call) /\ Ordered(calls, fired') /\ Elements(fired') \subseteq Elements(fired) \cup {h}
    <2>1. fired \in Seq(Call) /\ h \in Call /\ Ordered(calls, fired)
      BY <1>2, <1>3
    <2>2. CASE fired' = Append(fired, h)
      BY <2>1, <2>2, <1>4, PostFacts
    <2>3. CASE fired' = fired
      BY <2>1, <2>3
    <2> QED
      BY <1>1, <2>2, <2>3
  <1>6. BridgeTypeOK'
    BY <1>1, <1>3, <1>5, TypeFrame DEF BridgeTypeOK
  <1>7. KnownCalls'
    BY <1>1, <1>3, <1>5 DEF BridgeInv, KnownCalls
  <1>8. Pipeline'
    BY <1>1, <1>3, <1>4, <1>5 DEF BridgeInv, Pipeline, AllBefore
  <1>9. CallbacksAccountedFor'
    BY <1>1, <1>3 DEF BridgeInv, CallbacksAccountedFor
  <1> QED
    BY <1>6, <1>7, <1>8, <1>9 DEF BridgeInv

\* A page makes a call: it is later than every call under way.
LEMMA CallStep ==
    ASSUME BridgeTypeOK, BridgeInv, UNCHANGED connVars, NEW k \in Kind, TakeNativeAction(k)
    PROVE  BridgeTypeOK' /\ BridgeInv'
  <1> USE CallsAssumption DEF Fired, Posted, Blocked, Queued
  <1> DEFINE n == Len(calls) + 1
  <1>1. /\ calls' = Append(calls, k) /\ callbacks' = callbacks \cup {n}
        /\ bridge' = Append(bridge, n) /\ Len(calls) < MaxCalls
        /\ UNCHANGED <<running, target, dialogs, ui, fired, kept, ended, lost>>
    BY DEF TakeNativeAction
  <1>2. /\ calls \in Seq(Kind) /\ bridge \in Seq(Call) /\ Len(calls) \in Nat
        /\ calls' \in Seq(Kind) /\ Len(calls') = n
        /\ \A c \in 1..Len(calls) : calls'[c] = calls[c]
        /\ n \in Call /\ n \notin 1..Len(calls) /\ \A c \in 1..Len(calls) : c < n
        /\ 1..Len(calls) \subseteq 1..Len(calls')
        /\ n \in 1..Len(calls')
    BY <1>1 DEF BridgeTypeOK, Call
  <1> HIDE DEF n
  <1>3. \A x, y \in 1..Len(calls) : Before(calls, x, y) => Before(calls', x, y)
    BY <1>2 DEF Before
  <1>4. \A x \in 1..Len(calls) : Before(calls', x, n)
    BY <1>2 DEF Before
  <1>5. /\ Elements(fired) \subseteq 1..Len(calls) /\ Elements(ui) \subseteq 1..Len(calls)
        /\ Elements(bridge) \subseteq 1..Len(calls) /\ Blocked \subseteq 1..Len(calls)
        /\ dialogs \subseteq 1..Len(calls)
    BY DEF BridgeInv, KnownCalls
  <1>6. ASSUME NEW s, Elements(s) \subseteq 1..Len(calls), Ordered(calls, s)
        PROVE  Ordered(calls', s)
    BY <1>3, <1>6 DEF Ordered, Elements
  <1>7. Ordered(calls', fired) /\ Ordered(calls', ui) /\ Ordered(calls', bridge)
    BY <1>5, <1>6 DEF BridgeInv, Pipeline
  <1>8. /\ bridge' \in Seq(Call) /\ Elements(bridge') = Elements(bridge) \cup {n}
        /\ Ordered(calls', bridge')
    <2>1. AllBefore(calls', Elements(bridge), {n})
      BY <1>4, <1>5 DEF AllBefore
    <2>2. bridge \in Seq(Call) /\ n \in Call /\ Ordered(calls', bridge) /\ bridge' = Append(bridge, n)
      BY <1>1, <1>2, <1>7
    <2> QED
      BY <2>1, <2>2, PostFacts
  <1>9. BridgeTypeOK'
    BY <1>1, <1>2, <1>8, TypeFrame DEF BridgeTypeOK
  <1>10. KnownCalls'
    <2>1. Len(calls') <= MaxCalls
      BY <1>1, <1>2 DEF n
    <2> QED
      BY <1>1, <1>2, <1>8, <2>1 DEF BridgeInv, KnownCalls
  <1>11. Pipeline'
    <2>1. /\ AllBefore(calls', Elements(fired), Elements(ui) \cup Blocked \cup Elements(bridge'))
          /\ AllBefore(calls', Elements(ui), Blocked \cup Elements(bridge'))
          /\ AllBefore(calls', Blocked, Elements(bridge'))
      BY <1>3, <1>4, <1>5, <1>8 DEF BridgeInv, Pipeline, AllBefore
    <2>2. dialogs \cap (Elements(fired) \cup Elements(ui) \cup Blocked \cup Elements(bridge')) = {}
      BY <1>2, <1>5, <1>8 DEF BridgeInv, Pipeline
    <2> QED
      BY <1>1, <1>7, <1>8, <2>1, <2>2 DEF Pipeline
  <1>12. CallbacksAccountedFor'
    <2> SUFFICES ASSUME NEW c \in callbacks', c \notin Elements(bridge')
                 PROVE  \/ c \in Elements(ui') \cup dialogs' \cup {running'}
                        \/ c \in ended' /\ calls'[c] \in {"silent", "dialog"}
                        \/ c \in lost' /\ calls'[c] = "remote"
                        \/ c \in kept'
      BY DEF CallbacksAccountedFor
    <2>1. c \in callbacks /\ c \notin Elements(bridge)
      BY <1>1, <1>8
    <2>2. c \in 1..Len(calls)
      BY <2>1 DEF BridgeInv, KnownCalls
    <2> QED
      BY <1>1, <1>2, <2>1, <2>2 DEF BridgeInv, CallbacksAccountedFor
  <1> QED
    BY <1>9, <1>10, <1>11, <1>12 DEF BridgeInv

\* A reload forgets the callbacks and nothing else.
LEMMA ReloadStep ==
    ASSUME BridgeTypeOK, BridgeInv, UNCHANGED connVars, Reload
    PROVE  BridgeTypeOK' /\ BridgeInv'
  <1>1. /\ callbacks' = {}
        /\ UNCHANGED <<calls, bridge, running, target, dialogs, ui, fired, kept, ended, lost>>
    BY DEF Reload
  <1>2. BridgeTypeOK'
    BY <1>1, TypeFrame DEF BridgeTypeOK
  <1>3. KnownCalls' /\ Pipeline' /\ CallbacksAccountedFor'
    BY <1>1 DEF BridgeInv, KnownCalls, Pipeline, CallbacksAccountedFor, Fired, Posted,
                Blocked, Queued
  <1> QED
    BY <1>2, <1>3 DEF BridgeInv

\* A step of the connection leaves the calls alone, and a step of the bridge leaves
\* the connection alone.
LEMMA BridgeStep ==
    BridgeTypeOK /\ DeadIsBounded /\ BridgeInv /\ [Next]_vars
       => BridgeTypeOK' /\ DeadIsBounded' /\ BridgeInv'
  <1> SUFFICES ASSUME BridgeTypeOK, DeadIsBounded, BridgeInv, [Next]_vars
               PROVE  BridgeTypeOK' /\ DeadIsBounded' /\ BridgeInv'
    OBVIOUS
  <1>1. CASE [ConnNext]_connVars /\ UNCHANGED bridgeVars
    <2>1. TypeOK' /\ DeadIsBounded'
      BY <1>1, ConnTypeStep DEF BridgeTypeOK
    <2>2. BridgeTypeOK'
      BY <1>1, <2>1 DEF BridgeTypeOK, bridgeVars
    <2>3. KnownCalls' /\ Pipeline' /\ CallbacksAccountedFor'
      BY <1>1 DEF BridgeInv, KnownCalls, Pipeline, CallbacksAccountedFor, Fired, Posted,
                  Blocked, Queued, bridgeVars
    <2> QED
      BY <2>1, <2>2, <2>3 DEF BridgeInv
  <1>2. CASE BridgeNext /\ UNCHANGED connVars
    <2>1. DeadIsBounded'
      BY <1>2 DEF DeadIsBounded, connVars, platform
    <2> QED
      BY <1>2, <2>1, BlockStep, AnswerStep, TakeStep, RemoteDiesStep, DialogStep, CallbackStep,
         CallStep, ReloadStep DEF BridgeNext, JavaBridgeStep
  <1> QED
    BY <1>1, <1>2 DEF Next, vars

\* The bridge starts with no calls and an idle connection.
LEMMA BridgeInit == Init => BridgeTypeOK /\ DeadIsBounded /\ BridgeInv
  <1> SUFFICES ASSUME Init PROVE BridgeTypeOK /\ DeadIsBounded /\ BridgeInv
    OBVIOUS
  <1>1. TypeOK /\ DeadIsBounded
    BY ConnTypeInit DEF Init
  <1>2. BridgeTypeOK
    BY <1>1 DEF Init, BridgeTypeOK
  <1>3. Elements(<<>>) = {} /\ Ordered(calls, <<>>)
    BY DEF Elements, Ordered
  <1>4. KnownCalls /\ Pipeline /\ CallbacksAccountedFor
    BY <1>3, CallsAssumption DEF Init, KnownCalls, Pipeline, CallbacksAccountedFor, Fired, Posted,
                Blocked, Queued, AllBefore
  <1> QED
    BY <1>1, <1>2, <1>4 DEF BridgeInv

\* The types of the bridge and of the connection hold when both run together.
THEOREM BridgeTypeCorrect == Spec => []BridgeTypeOK
  BY BridgeInit, BridgeStep, PTL DEF Spec

\* No callback the page holds is forgotten on its way through takeNativeAction, the
\* JavaBridge thread, the other process and the UI thread, for any number of calls.
THEOREM NoCallbackForgotten == Spec => []CallbacksAccountedFor
  <1>1. BridgeInv => CallbacksAccountedFor
    BY DEF BridgeInv
  <1> QED
    BY <1>1, BridgeInit, BridgeStep, PTL DEF Spec

\* Callbacks fire in the order of the calls, dialogs apart, and none fires twice.
THEOREM CallbacksInOrder == Spec => []AnswersInCallOrder
  <1>1. BridgeTypeOK /\ BridgeInv => AnswersInCallOrder
    BY DEF BridgeTypeOK, BridgeInv, Pipeline, Ordered, Before, AnswersInCallOrder
  <1> QED
    BY <1>1, BridgeInit, BridgeStep, PTL DEF Spec

\* The calls do not disturb the connection: no waiter is stuck when the bridge runs.
THEOREM WaitersAreWokenUnderCalls == Spec => []NoStuckWaiter
  <1>1. Init => ConnInv
    BY ConnInvInit DEF Init
  <1>2. [Next]_vars => [ConnNext]_connVars
    BY DEF Next, vars
  <1>3. BridgeTypeOK => TypeOK
    BY DEF BridgeTypeOK
  <1>4. ConnInv => NoStuckWaiter
    BY DEF ConnInv
  <1> QED
    BY <1>1, <1>2, <1>3, <1>4, ConnInvStep, BridgeTypeCorrect, PTL DEF Spec
=============================================================================
