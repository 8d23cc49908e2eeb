------------------------- MODULE LoginServiceProofs -------------------------
(***************************************************************************)
(* Proofs about LoginService, for any number of clicks and deaths of the   *)
(* user service.                                                           *)
(***************************************************************************)
EXTENDS LoginService, TLAPS

\* What the app knows of the service lies in the past, death handlers included; a
\* listener is held only by the living incarnation; a bound connection has isBind set.
Past ==
    /\ delivered <= gen
    /\ serverUp => gen > 0
    /\ linked \subseteq 1..gen
    /\ iUserManager # NoBinder /\ ~destroyed => iUserManager <= delivered
    /\ \A g \in Gens : g \in died \/ rpc[g] # "idle" => g < gen \/ (g = gen /\ ~serverUp)
    /\ registered \subseteq {gen} /\ (registered # {} => serverUp)
    /\ (bound => isBind)
    /\ delivered # 0 \/ mainPc = "link" => bound
    /\ mainPc = "unbind" => destroyed

\* Is no death handler past its first test?
Calm == \A g \in Gens : rpc[g] \in {"idle", "done"}

\* As long as unBinder has not raced a death handler: a screen that was told of the
\* living incarnation holds its binder, unless the handler of an earlier death has taken
\* that back; only such a screen is linked to it, and only that or a binder taken back is
\* registered with it; and after onDestroy no death handler is on its way to bind again,
\* nor will one find a binder that sends it there.
Released ==
    /\ serverUp /\ delivered = gen /\ ~destroyed =>
           /\ ~disconnect
           /\ iUserManager = gen \/ (gen \in lost /\ iUserManager = NoBinder)
    /\ serverUp /\ gen \in linked /\ ~destroyed => delivered = gen
    /\ serverUp /\ gen \in registered => gen \in lost \/ (~destroyed /\ delivered = gen)
    /\ destroyed => /\ mainPc # "link" /\ Calm
                    /\ mainPc # "unbind" => ~bound
                    /\ \/ iUserManager = NoBinder
                       \/ died = {} /\ (serverUp => gen \notin linked)

\* Whatever bindService does, what was bound stays bound, with isBind set.
LEMMA BoundStep ==
    ASSUME TypeOK, bound => isBind, BinderRemoteServer
    PROVE  /\ bound' \in BOOLEAN /\ isBind' \in BOOLEAN
           /\ (bound' => isBind') /\ (bound => bound')
  <1>1. bound \in BOOLEAN /\ isBind \in BOOLEAN
    BY DEF TypeOK
  <1>2. CASE isBind' = TRUE /\ (bound' = TRUE \/ bound' = bound)
    BY <1>1, <1>2, Zenon
  <1>3. CASE bound' = bound /\ isBind' = isBind
    BY <1>1, <1>3, Zenon
  <1> QED
    BY <1>2, <1>3 DEF BinderRemoteServer

\* Every step keeps the types, with what lies in the past.
LEMMA TypeStep == TypeOK /\ Past /\ [Next]_vars => TypeOK' /\ Past'
  <1> SUFFICES ASSUME TypeOK, Past, [Next]_vars PROVE TypeOK' /\ Past'
    OBVIOUS
  <1> USE LoginDeathsAssumption DEF TypeOK, Past, Gens, platform, mocker, threads, ui
  <1>1. CASE UNCHANGED vars
    BY <1>1 DEF vars
  <1>2. ASSUME NEW c \in Clicks, Click(c) PROVE TypeOK' /\ Past'
    <2>1. /\ bound' \in BOOLEAN /\ isBind' \in BOOLEAN /\ (bound' => isBind')
          /\ (bound => bound')
      BY <1>2, BoundStep DEF Click
    <2> QED
      BY <1>2, <2>1 DEF Click
  <1>3. ASSUME NEW c \in Clicks, CallLogin(c) PROVE TypeOK' /\ Past'
    <2>1. crashed' \in BOOLEAN
      BY <1>3, Zenon DEF CallLogin
    <2> QED
      BY <1>3, <2>1 DEF CallLogin
  <1>4. ASSUME NEW c \in Clicks, LoginReturns(c) PROVE TypeOK' /\ Past'
    <2>1. PICK code \in {"SUCCESS", "INVALID_INFO"} : login' = [login EXCEPT ![c] = code]
      BY <1>4 DEF LoginReturns
    <2> QED
      BY <1>4, <2>1 DEF LoginReturns
  <1>5. ASSUME NEW c \in Clicks, LoginThrows(c) PROVE TypeOK' /\ Past'
    BY <1>5 DEF LoginThrows
  <1>6. CASE OnServiceConnected
    BY <1>6 DEF OnServiceConnected
  <1>8. CASE OnServiceDisconnected
    <2>1. disconnect' \in BOOLEAN
      BY <1>8, Zenon DEF OnServiceDisconnected
    <2> QED
      BY <1>8, <2>1 DEF OnServiceDisconnected
  <1>7. CASE SetListeners
    <2>1. /\ \/ registered' = registered
             \/ Alive(iUserManager) /\ registered' = registered \cup {iUserManager}
          /\ linked' = linked \/ (Alive(delivered) /\ linked' = linked \cup {delivered})
      BY <1>7 DEF SetListeners
    <2> QED
      BY <1>7, <2>1 DEF SetListeners, Alive
  <1>9. CASE Unbind
    <2>1. raced' \in BOOLEAN
      BY <1>9, Zenon DEF Unbind
    <2>2. /\ bound' \in BOOLEAN /\ isBind' \in BOOLEAN /\ disconnect' \in BOOLEAN
          /\ ~bound' /\ ~isBind'
      BY <1>9, Zenon DEF Unbind
    <2>3. UNCHANGED <<serverUp, gen, linked, died, registered, iUserManager, rpc, lost, login,
                      target, destroyed, crashed>>
          /\ delivered' = 0 /\ mainPc' = "free"
      BY <1>9 DEF Unbind
    <2>4. destroyed /\ gen \in Nat
      BY <1>9 DEF Unbind
    <2> QED
      BY <2>1, <2>2, <2>3, <2>4
  <1>10. ASSUME NEW g \in Gens, RecipientStep(g) PROVE TypeOK' /\ Past'
    <2>1. CASE BinderDied(g)
      BY <1>10, <2>1 DEF BinderDied
    <2>2. CASE UnlinkToDeath(g)
      BY <1>10, <2>2 DEF UnlinkToDeath
    <2>3. CASE ForgetBinder(g)
      BY <1>10, <2>3 DEF ForgetBinder
    <2>4. CASE Rebind(g)
      <3>1. /\ bound' \in BOOLEAN /\ isBind' \in BOOLEAN /\ (bound' => isBind')
            /\ (bound => bound')
        BY <2>4, BoundStep DEF Rebind
      <3> QED
        BY <1>10, <2>4, <3>1 DEF Rebind
    <2> QED
      BY <1>10, <2>1, <2>2, <2>3, <2>4 DEF RecipientStep
  <1>11. CASE Destroy
    <2>1. raced' \in BOOLEAN /\ crashed' \in BOOLEAN
      BY <1>11, Zenon DEF Destroy
    <2>2. login' \in [Clicks -> {"idle", "delay", "call", "SUCCESS", "INVALID_INFO",
                                 "CONN_ERROR", "cancelled"}]
      BY <1>11 DEF Destroy
    <2> QED
      BY <1>11, <2>1, <2>2 DEF Destroy
  <1>12. CASE ServerStarts
    BY <1>12 DEF ServerStarts
  <1>13. CASE ServerDies
    <2>1. disconnect' \in BOOLEAN
      BY <1>13, Zenon DEF ServerDies
    <2> QED
      BY <1>13, <2>1 DEF ServerDies
  <1> QED
    BY <1>1, <1>2, <1>3, <1>4, <1>5, <1>6, <1>7, <1>8, <1>9, <1>10, <1>11, <1>12, <1>13
    DEF Next, LoginStep, MainStep

\* The login keeps its types, for any clicks and deaths; the listener is registered with
\* the living incarnation of the service only.
THEOREM TypeCorrect == Spec => [](TypeOK /\ Past)
  <1>1. Init => TypeOK /\ Past
    <2> SUFFICES ASSUME Init PROVE TypeOK /\ Past
      OBVIOUS
    <2>1. /\ serverUp \in BOOLEAN /\ bound \in BOOLEAN /\ disconnect \in BOOLEAN
          /\ isBind \in BOOLEAN /\ destroyed \in BOOLEAN /\ raced \in BOOLEAN
          /\ crashed \in BOOLEAN
      BY Zenon DEF Init
    <2>2. TypeOK
      BY <2>1, LoginDeathsAssumption DEF Init, TypeOK, Gens
    <2>3. Past
      BY LoginDeathsAssumption DEF Init, Past, Gens
    <2> QED
      BY <2>2, <2>3
  <1> QED
    BY <1>1, TypeStep, PTL DEF Spec

\* A race that has happened stays.
LEMMA RacedStays == [Next]_vars /\ ~raced' => ~raced
  <1> SUFFICES ASSUME [Next]_vars, raced PROVE raced'
    OBVIOUS
  <1>1. CASE Destroy \/ Unbind
    BY <1>1, Zenon DEF Destroy, Unbind
  <1>2. CASE UNCHANGED raced
    BY <1>2
  <1> QED
    BY <1>1, <1>2 DEF Next, vars, ui, Click, LoginStep, CallLogin, LoginReturns, LoginThrows,
       MainStep, OnServiceConnected, SetListeners, OnServiceDisconnected, RecipientStep,
       BinderDied, UnlinkToDeath, ForgetBinder, Rebind, ServerStarts, ServerDies

\* Every step keeps Released, as long as there is no race.
LEMMA ReleasedStep ==
    TypeOK /\ Past /\ (~raced => Released) /\ [Next]_vars => (~raced' => Released')
  <1> SUFFICES ASSUME TypeOK, Past, Released, [Next]_vars, ~raced' PROVE Released'
    BY RacedStays
  <1> USE LoginDeathsAssumption
      DEF TypeOK, Past, Released, Calm, Gens, platform, mocker, threads, ui
  <1>1. CASE UNCHANGED vars
    BY <1>1 DEF vars
  <1>2. ASSUME NEW c \in Clicks, Click(c) PROVE Released'
    BY <1>2 DEF Click
  <1>3. ASSUME NEW c \in Clicks, LoginStep(c) PROVE Released'
    <2>1. UNCHANGED <<platform, mocker, threads, destroyed>>
      BY <1>3 DEF LoginStep, CallLogin, LoginReturns, LoginThrows
    <2> QED
      BY <2>1
  <1>4. CASE OnServiceConnected
    BY <1>4 DEF OnServiceConnected, MainFree
  <1>5. CASE SetListeners
    <2>1. ~destroyed /\ ~destroyed'
      BY <1>5 DEF SetListeners
    <2>2. \/ UNCHANGED registered
          \/ serverUp /\ iUserManager = gen /\ delivered = gen
      BY <1>5, <2>1 DEF SetListeners, Alive
    <2>3. linked' = linked \/ (serverUp /\ delivered = gen)
      BY <1>5 DEF SetListeners, Alive
    <2> QED
      BY <1>5, <2>1, <2>2, <2>3 DEF SetListeners
  <1>6. CASE OnServiceDisconnected
    BY <1>6 DEF OnServiceDisconnected
  <1>7. CASE Unbind
    BY <1>7 DEF Unbind
  <1>8. ASSUME NEW g \in Gens, RecipientStep(g) PROVE Released'
    <2>1. CASE BinderDied(g)
      BY <1>8, <2>1 DEF BinderDied
    <2>2. CASE UnlinkToDeath(g)
      BY <1>8, <2>2 DEF UnlinkToDeath
    <2>3. CASE ForgetBinder(g)
      <3>1. ~destroyed /\ (serverUp => g < gen)
        BY <1>8, <2>3 DEF ForgetBinder
      <3>2. serverUp /\ iUserManager = gen => gen \in lost'
        BY <1>8, <2>3, <3>1 DEF ForgetBinder
      <3> QED
        BY <2>3, <3>1, <3>2 DEF ForgetBinder
    <2>4. CASE Rebind(g)
      BY <1>8, <2>4 DEF Rebind
    <2> QED
      BY <1>8, <2>1, <2>2, <2>3, <2>4 DEF RecipientStep
  <1>9. CASE Destroy
    <2>1. died = {} /\ Calm
      <3>1. raced' = (raced \/ ~HandlersQuiet)
        BY <1>9 DEF Destroy
      <3>2. HandlersQuiet
        BY <3>1, Zenon
      <3> QED
        BY <3>2 DEF HandlersQuiet
    <2>2. CASE isBind /\ Alive(iUserManager)
      BY <1>9, <2>1, <2>2 DEF Destroy, Alive, MainFree
    <2>3. CASE ~(isBind /\ Alive(iUserManager))
      <3>1. UNCHANGED <<registered, linked, iUserManager>> /\ ~destroyed
        BY <1>9, <2>3 DEF Destroy
      <3>2. ASSUME serverUp, delivered = gen PROVE gen \in lost /\ iUserManager = NoBinder
        <4>1. isBind /\ gen # NoBinder
          BY <3>2, LoginNoBinderAssumption
        <4> QED
          BY <2>3, <3>1, <3>2, <4>1 DEF Alive
      <3> QED
        BY <1>9, <2>1, <3>1, <3>2 DEF Destroy, MainFree
    <2> QED
      BY <2>2, <2>3
  <1>10. CASE ServerStarts
    BY <1>10 DEF ServerStarts
  <1>11. CASE ServerDies
    BY <1>11 DEF ServerDies
  <1> QED
    BY <1>1, <1>2, <1>3, <1>4, <1>5, <1>6, <1>7, <1>8, <1>9, <1>10, <1>11 DEF Next, MainStep

\* After unBinder nothing is left behind, for any clicks and deaths and in whatever order
\* deaths, reconnections and the leaving come: no binding, unless it ran while a binderDied
\* was on its way to bind again, and no listener but one whose binder a late binderDied
\* had taken back.
THEOREM NothingLeftBehind == Spec => []ReleaseIsClean
  <1>1. Init => (~raced => Released)
    BY LoginDeathsAssumption DEF Init, Released, Calm, Gens
  <1>2. TypeOK /\ Past /\ (~raced => Released) => ReleaseIsClean
    BY DEF TypeOK, Past, Released, ReleaseIsClean
  <1> QED
    BY <1>1, <1>2, ReleasedStep, TypeCorrect, PTL DEF Spec
=============================================================================
