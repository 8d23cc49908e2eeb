-------------------------- MODULE MvvmPagingProofs --------------------------
(***************************************************************************)
(* Proofs about MvvmPaging, for every bound on the requests and for both   *)
(* kinds of screen.                                                        *)
(***************************************************************************)
EXTENDS MvvmPaging, TLAPS

\* A screen without predefined data that has cached nothing yet has an empty list,
\* is still refreshing, and shows no content from which a next page could be asked
\* for: what a configuration change needs to keep the count right.
FreshScreen ==
    ~Predefined /\ cache = NoData =>
        /\ dataList = <<>>
        /\ isRefresh
        /\ status \in {"LOADING", "REFRESH_ERROR"}
        /\ page \in {"loading", "error"}
        /\ \A r \in stale : r.refresh

\* A screen that is gone has no request of its own.
ClearedIdle == cleared => inFlight = {}

\* On a screen that asks for pages, one request at a time, the request in flight asks
\* for the page the list needs next.
OneRequest ==
    Paged /\ ~overlapped /\ ~refreshed =>
        /\ \A r \in inFlight : r.page = pageNumber
        /\ \A r, s \in inFlight : r = s
        /\ isRefresh /\ inFlight # {} => pageNumber = 0

\* A list with one more entry at its end (loadSuccess adding an answer).
LEMMA Appended ==
    ASSUME NEW s \in Seq(Chunk), NEW x \in Chunk
    PROVE  /\ s \o <<x>> \in Seq(Chunk)
           /\ Len(s \o <<x>>) = Len(s) + 1
           /\ \A i \in 1..Len(s) : (s \o <<x>>)[i] = s[i]
           /\ (s \o <<x>>)[Len(s) + 1] = x
           /\ s \o <<x>> # <<>>
  OBVIOUS

\* What the cached or predefined bean contributes to a new screen's list.
LEMMA ChunksType ==
    ASSUME NEW b \in Bean, NEW f \in BOOLEAN
    PROVE  /\ Chunks(b, f) \in Seq(Chunk)
           /\ Len(Chunks(b, f)) \in {0, 1}
           /\ Chunks(b, f) # <<>> => /\ Len(Chunks(b, f)) = 1
                                     /\ Chunks(b, f)[1].fromCache = f
  <1>1. CASE b.empty
    <2>1. Chunks(b, f) = <<>>
      BY <1>1, Zenon DEF Chunks
    <2> QED
      BY <2>1
  <1>2. CASE ~b.empty
    <2> DEFINE x == [page |-> b.page, fromCache |-> f]
    <2>1. Chunks(b, f) = <<x>>
      BY <1>2, Zenon DEF Chunks
    <2>2. x \in Chunk /\ x.fromCache = f
      BY DEF Bean, Chunk
    <2> HIDE DEF x
    <2>3. Len(<<x>>) = 1 /\ <<x>>[1] = x /\ <<x>> \in Seq(Chunk)
      BY <2>2
    <2> QED
      BY <2>1, <2>2, <2>3
  <1> QED
    BY <1>1, <1>2

\* The first bean is a bean, unless nothing is cached and nothing predefined.
LEMMA FirstBeanType ==
    ASSUME TypeOK
    PROVE  /\ FirstBean # NoData => FirstBean \in Bean
           /\ FirstBean = NoData => cache = NoData /\ ~Predefined
  <1>1. CASE cache # NoData
    BY <1>1 DEF FirstBean, TypeOK
  <1>2. CASE cache = NoData /\ Predefined
    <2>1. FirstBean = [page |-> 0, empty |-> FALSE]
      BY <1>2, Zenon DEF FirstBean
    <2>2. [page |-> 0, empty |-> FALSE] \in Bean
      BY DEF Bean
    <2> QED
      BY <2>1, <2>2, NoDataAssumption DEF Bean
  <1>3. CASE cache = NoData /\ ~Predefined
    <2>1. FirstBean = NoData
      BY <1>3, Zenon DEF FirstBean
    <2> QED
      BY <1>3, <2>1
  <1> QED
    BY <1>1, <1>2, <1>3

\* A new model leaves the variables in their types.
LEMMA NewModelType ==
    ASSUME TypeOK, NEW list \in Seq(Chunk), NEW st \in ViewStatus, NewModel(list, st)
    PROVE  /\ isRefresh' \in BOOLEAN /\ pageNumber' \in Nat
           /\ inFlight' \in SUBSET Request /\ issued' \in 0..MaxRequests
           /\ dataList' \in Seq(Chunk) /\ status' \in ViewStatus
           /\ page' \in {"loading", "empty", "error", "content"}
           /\ spinner' = "none" /\ cache' = cache
           /\ overlapped' = FALSE /\ refreshed' = FALSE
  <1>1. dataList' \in Seq(Chunk)
    BY FirstBeanType, ChunksType DEF NewModel
  <1>2. status' \in ViewStatus /\ page' \in {"loading", "empty", "error", "content"}
    BY DEF NewModel, ViewStatus, PageFor
  <1>3. inFlight' \in SUBSET Request /\ issued' \in 0..MaxRequests
    BY RequestsAssumption DEF NewModel, TypeOK, Request
  <1> QED
    BY <1>1, <1>2, <1>3 DEF NewModel

\* load() leaves the variables in their types.
LEMMA LoadType ==
    ASSUME TypeOK, NEW b \in BOOLEAN, Load(b)
    PROVE  /\ isRefresh' \in BOOLEAN
           /\ inFlight' \in SUBSET Request
           /\ issued' \in 0..MaxRequests
           /\ overlapped' \in BOOLEAN
           /\ refreshed' \in BOOLEAN
           /\ UNCHANGED <<pageNumber, stale, cleared, cache, dataList, status, page>>
  <1>1. inFlight' \in SUBSET Request /\ issued' \in 0..MaxRequests
    BY RequestsAssumption DEF Load, Asked, TypeOK, Request
  <1>2. overlapped' \in BOOLEAN /\ refreshed' \in BOOLEAN
    BY Zenon DEF Load
  <1> QED
    BY <1>1, <1>2 DEF Load

\* Every step keeps the types.
LEMMA TypeStep == TypeOK /\ [Next]_vars => TypeOK'
  <1> SUFFICES ASSUME TypeOK, [Next]_vars PROVE TypeOK'
    OBVIOUS
  <1>1. CASE Open
    <2>1. <<>> \in Seq(Chunk) /\ "LOADING" \in ViewStatus
      BY DEF ViewStatus
    <2>2. NewModel(<<>>, "LOADING") /\ cleared' = FALSE /\ stale' = stale
      BY <1>1 DEF Open
    <2> QED
      BY <2>1, <2>2, NewModelType DEF TypeOK
  <1>2. CASE Recreate
    <2>1. stale' \in SUBSET StaleRequest
      BY <1>2 DEF Recreate, TypeOK, Request, StaleRequest
    <2> QED
      BY <1>2, <2>1, NewModelType DEF Recreate, TypeOK
  <1>3. CASE Refresh \/ LoadNextPage \/ Retry
    <2>1. /\ \E b \in BOOLEAN : Load(b)
          /\ spinner' \in {"none", "refresh", "more"}
      BY <1>3, ScreenAssumption DEF Refresh, LoadNextPage, Retry, TypeOK
    <2> QED
      BY <2>1, LoadType DEF TypeOK
  <1>4. ASSUME NEW r \in inFlight, AnswerData(r) PROVE TypeOK'
    <2>1. [page |-> r.page, fromCache |-> FALSE] \in Chunk /\ r.page \in Nat
      BY DEF TypeOK, Request, Chunk
    <2>2. dataList' \in Seq(Chunk)
      BY <1>4, <2>1, Appended DEF AnswerData, TypeOK
    <2> QED
      BY <1>4, <2>1, <2>2 DEF AnswerData, TypeOK, ViewStatus, Bean, history
  <1>5. ASSUME NEW r \in inFlight, AnswerEmpty(r) PROVE TypeOK'
    BY <1>5 DEF AnswerEmpty, TypeOK, ViewStatus, Bean, Request, history
  <1>6. ASSUME NEW r \in inFlight, AnswerFail(r) PROVE TypeOK'
    BY <1>6 DEF AnswerFail, LoadFail, TypeOK, ViewStatus, history
  <1>7. ASSUME NEW r \in stale, StaleSuccess(r) PROVE TypeOK'
    BY <1>7 DEF StaleSuccess, TypeOK, StaleRequest, Bean, view, history
  <1>8. ASSUME NEW r \in stale, StaleFail(r) PROVE TypeOK'
    BY <1>8 DEF StaleFail, LoadFail, TypeOK, ViewStatus, StaleRequest, view, history
  <1>9. CASE Resume \/ Clear
    BY <1>9 DEF Resume, Clear, PageFor, TypeOK, model, view, history
  <1>10. CASE UNCHANGED vars
    BY <1>10 DEF vars, model, view, history, TypeOK
  <1> QED
    BY <1>1, <1>2, <1>3, <1>4, <1>5, <1>6, <1>7, <1>8, <1>9, <1>10
    DEF Next, Answer, StaleAnswer

\* The state of a list screen stays in its types, whatever the bound.
THEOREM TypeCorrect == Spec => []TypeOK
  <1>1. Init => TypeOK
    <2> SUFFICES ASSUME Init PROVE TypeOK
      OBVIOUS
    <2>1. /\ isRefresh \in BOOLEAN /\ cleared \in BOOLEAN
          /\ overlapped \in BOOLEAN /\ refreshed \in BOOLEAN
      BY Zenon DEF Init
    <2>2. issued \in 0..MaxRequests /\ pageNumber \in Nat /\ dataList \in Seq(Chunk)
      BY RequestsAssumption DEF Init
    <2>3. cache \in Bean \cup {NoData} /\ inFlight \in SUBSET Request
      BY DEF Init
    <2> QED
      BY <2>1, <2>2, <2>3 DEF Init, TypeOK, ViewStatus
  <1> QED
    BY <1>1, TypeStep, PTL DEF Spec
-----------------------------------------------------------------------------
\* Every step keeps a screen that has nothing cached from showing content.
LEMMA FreshStep == TypeOK /\ FreshScreen /\ [Next]_vars => FreshScreen'
  <1> SUFFICES ASSUME TypeOK, FreshScreen, [Next]_vars, ~Predefined, cache' = NoData
               PROVE  /\ dataList' = <<>>
                      /\ isRefresh'
                      /\ status' \in {"LOADING", "REFRESH_ERROR"}
                      /\ page' \in {"loading", "error"}
                      /\ \A r \in stale' : r.refresh
    BY DEF FreshScreen
  <1>0. RetryRefreshes = TRUE
    BY ScreenAssumption
  <1>a. ASSUME cache = NoData
        PROVE  /\ dataList = <<>> /\ isRefresh
               /\ status \in {"LOADING", "REFRESH_ERROR"} /\ page \in {"loading", "error"}
               /\ \A r \in stale : r.refresh
    BY <1>a DEF FreshScreen
  <1>b. \A n \in Nat, e \in BOOLEAN : [page |-> n, empty |-> e] # NoData
    BY NoDataAssumption
  <1>1. CASE Open
    <2>1. cache = NoData
      BY <1>1 DEF Open, NewModel
    <2>2. FirstBean = NoData
      BY <2>1, Zenon DEF FirstBean
    <2> QED
      BY <1>1, <1>a, <2>1, <2>2 DEF Open, NewModel, PageFor
  <1>2. CASE Recreate
    <2>1. cache = NoData
      BY <1>2 DEF Recreate, NewModel
    <2>2. FirstBean = NoData
      BY <2>1, Zenon DEF FirstBean
    <2>3. \A r \in stale' : r.refresh
      <3>1. isRefresh = TRUE
        BY <1>a, <2>1, Zenon DEF TypeOK
      <3>2. SUFFICES ASSUME NEW r \in stale' PROVE r.refresh = TRUE
        OBVIOUS
      <3>3. CASE r \in stale
        BY <1>a, <2>1, <3>3, Zenon DEF TypeOK, StaleRequest
      <3>4. CASE \E q \in inFlight : r = [id |-> q.id, page |-> q.page, refresh |-> isRefresh]
        BY <3>1, <3>4
      <3> QED
        BY <1>2, <3>3, <3>4 DEF Recreate
    <2> QED
      BY <1>2, <1>a, <2>1, <2>2, <2>3 DEF Recreate, NewModel, PageFor
  <1>3. CASE Refresh \/ LoadNextPage \/ Retry
    <2>1. cache = NoData
      BY <1>3 DEF Refresh, LoadNextPage, Retry, Load
    <2>2. Retry
      BY <1>3, <1>a, <2>1 DEF Refresh, LoadNextPage
    <2> QED
      BY <1>0, <1>a, <2>1, <2>2 DEF Retry, Load
  <1>4. ASSUME NEW r \in inFlight, AnswerData(r) \/ AnswerEmpty(r) PROVE FALSE
    <2>1. r.page \in Nat
      BY DEF TypeOK, Request
    <2>2. cache = NoData
      BY <1>4, <1>b, <2>1 DEF AnswerData, AnswerEmpty
    <2> QED
      BY <1>4, <1>a, <1>b, <2>1, <2>2 DEF AnswerData, AnswerEmpty
  <1>5. ASSUME NEW r \in inFlight, AnswerFail(r)
        PROVE  /\ cache = NoData /\ dataList' = dataList /\ isRefresh' = isRefresh
               /\ stale' = stale /\ status' = "REFRESH_ERROR" /\ page' = "error"
    BY <1>5, <1>a DEF AnswerFail, LoadFail
  <1>6. ASSUME NEW r \in stale, StaleSuccess(r)
        PROVE  /\ cache = NoData /\ stale' \subseteq stale
               /\ UNCHANGED <<dataList, isRefresh, status, page>>
    <2>1. r.page \in Nat /\ r.refresh \in BOOLEAN
      BY DEF TypeOK, StaleRequest
    <2> QED
      BY <1>6, <1>a, <1>b, <2>1 DEF StaleSuccess, view
  <1>7. ASSUME NEW r \in stale, StaleFail(r)
        PROVE  /\ cache = NoData /\ stale' \subseteq stale
               /\ UNCHANGED <<dataList, isRefresh>>
               /\ status' \in {"LOADING", "REFRESH_ERROR"}
               /\ page' \in {"loading", "error"}
    BY <1>7, <1>a DEF StaleFail, LoadFail, view
  <1>8. CASE Resume \/ Clear
    BY <1>8, <1>a DEF Resume, Clear, PageFor, model, view
  <1>9. CASE UNCHANGED vars
    BY <1>9, <1>a DEF vars, model, view
  <1> QED
    BY <1>1, <1>2, <1>3, <1>4, <1>5, <1>6, <1>7, <1>8, <1>9, <1>a
    DEF Next, Answer, StaleAnswer
-----------------------------------------------------------------------------
\* A new model starts counting at 0, on a list that holds the first bean or
\* nothing.
LEMMA NewModelCount ==
    ASSUME TypeOK, NEW list \in Seq(Chunk), NEW st \in ViewStatus, NewModel(list, st),
           FirstBean = NoData => list = <<>>
    PROVE  /\ pageNumber' = 0
           /\ dataList' \in Seq(Chunk) /\ Len(dataList') \in {0, 1}
           /\ Len(dataList') - Cached' = 0
           /\ \A i \in 1..Len(dataList') : dataList'[i].fromCache
  <1>1. CASE FirstBean = NoData
    <2>1. dataList' = <<>> /\ pageNumber' = 0
      BY <1>1 DEF NewModel
    <2> QED
      BY <2>1 DEF Cached
  <1>2. CASE FirstBean # NoData
    <2>1. dataList' = Chunks(FirstBean, TRUE) /\ pageNumber' = 0
      BY <1>2 DEF NewModel
    <2>2. FirstBean \in Bean
      BY <1>2, FirstBeanType
    <2> DEFINE d == Chunks(FirstBean, TRUE)
    <2>3. /\ d \in Seq(Chunk) /\ Len(d) \in {0, 1}
          /\ d # <<>> => Len(d) = 1 /\ d[1].fromCache = TRUE
      BY <2>2, ChunksType
    <2>4. /\ dataList' = d /\ pageNumber' = 0
          /\ Cached' = IF d # <<>> /\ d[1].fromCache THEN 1 ELSE 0
      BY <2>1 DEF Cached
    <2> HIDE DEF d
    <2>5. CASE d = <<>>
      BY <2>3, <2>4, <2>5
    <2>6. CASE d # <<>>
      <3>1. Len(d) = 1 /\ d[1].fromCache /\ Cached' = 1
        BY <2>3, <2>4, <2>6
      <3> QED
        BY <2>3, <2>4, <3>1
    <2> QED
      BY <2>5, <2>6
  <1> QED
    BY <1>1, <1>2

\* Adding a network answer to a list: one entry more, and as many cached ones.
LEMMA AppendCount ==
    ASSUME NEW s \in Seq(Chunk), NEW x \in Chunk, ~x.fromCache, dataList' = s \o <<x>>
    PROVE  /\ dataList' \in Seq(Chunk) /\ Len(dataList') = Len(s) + 1
           /\ \A i \in 1..Len(s) : dataList'[i] = s[i]
           /\ dataList'[Len(s) + 1] = x
           /\ Cached' = IF s # <<>> /\ s[1].fromCache THEN 1 ELSE 0
  <1>1. /\ dataList' \in Seq(Chunk) /\ Len(dataList') = Len(s) + 1
        /\ \A i \in 1..Len(s) : dataList'[i] = s[i]
        /\ dataList'[Len(s) + 1] = x /\ dataList' # <<>>
    BY Appended
  <1>2. CASE s = <<>>
    BY <1>1, <1>2 DEF Cached
  <1>3. CASE s # <<>>
    <2>1. 1 \in 1..Len(s)
      BY <1>3
    <2>2. dataList'[1] = s[1]
      BY <1>1, <2>1
    <2> QED
      BY <1>1, <1>3, <2>2 DEF Cached
  <1> QED
    BY <1>1, <1>2, <1>3

\* Every step keeps the page number equal to the number of network answers.
LEMMA CountStep ==
    TypeOK /\ FreshScreen /\ ClearedIdle /\ PageNumberCountsAnswers /\ [Next]_vars
        => PageNumberCountsAnswers'
  <1> SUFFICES ASSUME TypeOK, FreshScreen, ClearedIdle, PageNumberCountsAnswers, [Next]_vars
               PROVE  PageNumberCountsAnswers'
    OBVIOUS
  <1>1. CASE Open
    <2>1. <<>> \in Seq(Chunk) /\ "LOADING" \in ViewStatus /\ NewModel(<<>>, "LOADING")
      BY <1>1 DEF ViewStatus, Open
    <2>2. /\ pageNumber' = 0
          /\ dataList' \in Seq(Chunk) /\ Len(dataList') \in {0, 1}
          /\ Len(dataList') - Cached' = 0
      BY <2>1, NewModelCount
    <2> QED
      BY <2>2 DEF PageNumberCountsAnswers
  <1>2. CASE Recreate
    <2>1. dataList \in Seq(Chunk) /\ status \in ViewStatus /\ NewModel(dataList, status)
      BY <1>2 DEF TypeOK, Recreate
    <2>2. FirstBean = NoData => dataList = <<>>
      BY FirstBeanType DEF FreshScreen
    <2>3. /\ pageNumber' = 0
          /\ dataList' \in Seq(Chunk) /\ Len(dataList') \in {0, 1}
          /\ Len(dataList') - Cached' = 0
      BY <2>1, <2>2, NewModelCount
    <2> QED
      BY <2>3 DEF PageNumberCountsAnswers
  <1>3. CASE UNCHANGED <<dataList, pageNumber>> /\ (cleared' = cleared \/ cleared')
    BY <1>3 DEF PageNumberCountsAnswers, Cached
  <1>4. ASSUME NEW r \in inFlight, AnswerData(r) PROVE PageNumberCountsAnswers'
    <2> DEFINE x == [page |-> r.page, fromCache |-> FALSE]
    <2> DEFINE s == IF isRefresh THEN <<>> ELSE dataList
    <2>1. x \in Chunk /\ ~x.fromCache
      BY DEF TypeOK, Request, Chunk
    <2>2. s \in Seq(Chunk) /\ dataList' = s \o <<x>>
      BY <1>4 DEF TypeOK, AnswerData
    <2>3. ~cleared /\ ~cleared'
      <3>1. ~cleared
        BY DEF ClearedIdle
      <3> QED
        BY <1>4, <3>1, Zenon DEF AnswerData
    <2>4. /\ \A i \in 2..Len(s) : ~s[i].fromCache
          /\ pageNumber' = Len(s) - (IF s # <<>> /\ s[1].fromCache THEN 1 ELSE 0) + 1
      <3>1. CASE isRefresh
        BY <1>4, <3>1 DEF AnswerData
      <3>2. CASE ~isRefresh
        BY <1>4, <2>3, <3>2 DEF AnswerData, PageNumberCountsAnswers, Cached
      <3> QED
        BY <3>1, <3>2
    <2> HIDE DEF x, s
    <2>5. /\ dataList' \in Seq(Chunk) /\ Len(dataList') = Len(s) + 1
          /\ \A i \in 1..Len(s) : dataList'[i] = s[i]
          /\ dataList'[Len(s) + 1] = x
          /\ Cached' = IF s # <<>> /\ s[1].fromCache THEN 1 ELSE 0
      BY <2>1, <2>2, AppendCount
    <2>6. ASSUME NEW i \in 2..Len(dataList') PROVE ~dataList'[i].fromCache
      <3>1. CASE i \in 2..Len(s)
        BY <2>2, <2>4, <2>5, <3>1
      <3>2. CASE i = Len(s) + 1
        BY <2>1, <2>5, <3>2
      <3> QED
        BY <2>2, <2>5, <3>1, <3>2
    <2>7. pageNumber' = Len(dataList') - Cached'
      BY <2>2, <2>4, <2>5
    <2> QED
      BY <2>6, <2>7 DEF PageNumberCountsAnswers
  <1>5. ASSUME NEW r \in inFlight, AnswerEmpty(r) PROVE PageNumberCountsAnswers'
    <2>1. CASE isRefresh
      BY <1>5, <2>1 DEF AnswerEmpty, PageNumberCountsAnswers, Cached
    <2>2. CASE ~isRefresh
      BY <1>5, <2>2 DEF AnswerEmpty, PageNumberCountsAnswers, Cached
    <2> QED
      BY <2>1, <2>2
  <1>6. CASE Refresh \/ LoadNextPage \/ Retry \/ Resume \/ Clear
    BY <1>3, <1>6 DEF Refresh, LoadNextPage, Retry, Resume, Clear, Load, model, view
  <1>7. ASSUME NEW r \in inFlight, AnswerFail(r) PROVE PageNumberCountsAnswers'
    BY <1>3, <1>7 DEF AnswerFail, LoadFail
  <1>8. ASSUME NEW r \in stale, StaleSuccess(r) \/ StaleFail(r)
        PROVE  PageNumberCountsAnswers'
    BY <1>3, <1>8 DEF StaleSuccess, StaleFail, LoadFail, view
  <1>9. CASE UNCHANGED vars
    BY <1>3, <1>9 DEF vars, model, view
  <1> QED
    BY <1>1, <1>2, <1>4, <1>5, <1>6, <1>7, <1>8, <1>9 DEF Next, Answer, StaleAnswer

\* A screen that is gone stays without requests of its own.
LEMMA IdleStep == TypeOK /\ ClearedIdle /\ [Next]_vars => ClearedIdle'
  BY DEF ClearedIdle, TypeOK, Next, Open, Recreate, NewModel, Refresh, LoadNextPage, Retry,
         Load, Answer, AnswerData, AnswerEmpty, AnswerFail, LoadFail, StaleAnswer,
         StaleSuccess, StaleFail, Resume, Clear, vars, model, view, history

\* For every bound and both screens: the page number the next request carries is
\* the number of network answers in the list.
THEOREM PageCount == Spec => []PageNumberCountsAnswers
  <1> DEFINE IInv == TypeOK /\ FreshScreen /\ ClearedIdle /\ PageNumberCountsAnswers
  <1>1. Init => FreshScreen /\ ClearedIdle /\ PageNumberCountsAnswers
    BY DEF Init, FreshScreen, ClearedIdle, PageNumberCountsAnswers, Cached
  <1>2. IInv /\ [Next]_vars => IInv'
    BY TypeStep, FreshStep, IdleStep, CountStep
  <1>3. Spec => []TypeOK
    BY TypeCorrect
  <1> QED
    BY <1>1, <1>2, <1>3, PTL DEF Spec

\* A running gesture on a visible list has a request that will end it: kept by
\* every step.
LEMMA SpinnerStep == TypeOK /\ NoOrphanSpinner /\ [Next]_vars => NoOrphanSpinner'
  BY DEF NoOrphanSpinner, TypeOK, Next, Open, Recreate, NewModel, Refresh, LoadNextPage,
         Retry, Load, Answer, AnswerData, AnswerEmpty, AnswerFail, LoadFail, StaleAnswer,
         StaleSuccess, StaleFail, Resume, Clear, vars, model, view, history

\* For every bound: no gesture on a visible list is left running without a request.
THEOREM SpinnerHasRequest == Spec => []NoOrphanSpinner
  <1>1. Init => NoOrphanSpinner
    BY DEF Init, NoOrphanSpinner
  <1>2. Spec => []TypeOK
    BY TypeCorrect
  <1> QED
    BY <1>1, <1>2, SpinnerStep, PTL DEF Spec
-----------------------------------------------------------------------------
\* Every step keeps the request in flight, if there is one at a time, on the page
\* the list needs next.
LEMMA RequestStep ==
    TypeOK /\ OneRequest /\ [Next]_vars => OneRequest'
  <1> SUFFICES ASSUME TypeOK, OneRequest, [Next]_vars, Paged, ~overlapped', ~refreshed'
               PROVE  /\ \A r \in inFlight' : r.page = pageNumber'
                      /\ \A r, s \in inFlight' : r = s
                      /\ isRefresh' /\ inFlight' # {} => pageNumber' = 0
    BY DEF OneRequest
  <1>1. CASE Open \/ Recreate
    <2>1. inFlight' = {[id |-> issued + 1, page |-> 0]} /\ pageNumber' = 0
      BY <1>1 DEF Open, Recreate, NewModel
    <2> QED
      BY <2>1
  <1>2. CASE Refresh \/ LoadNextPage \/ Retry
    <2>1. PICK b \in BOOLEAN : Load(b)
      BY <1>2, ScreenAssumption DEF Refresh, LoadNextPage, Retry
    <2>2. inFlight = {} /\ ~b
      BY <2>1 DEF Load
    <2> QED
      BY <2>1, <2>2 DEF Load, Asked
  <1>3. ASSUME NEW q \in inFlight, AnswerData(q) \/ AnswerEmpty(q) \/ AnswerFail(q)
        PROVE  inFlight' = {}
    <2>1. ~overlapped /\ ~refreshed /\ inFlight' = inFlight \ {q}
      BY <1>3 DEF AnswerData, AnswerEmpty, AnswerFail, LoadFail, history
    <2> QED
      BY <2>1 DEF OneRequest
  <1>4. CASE UNCHANGED <<isRefresh, pageNumber, inFlight, overlapped, refreshed>>
    BY <1>4 DEF OneRequest
  <1>5. ASSUME NEW r \in stale, StaleSuccess(r) \/ StaleFail(r)
        PROVE  UNCHANGED <<isRefresh, pageNumber, inFlight, overlapped, refreshed>>
    BY <1>5 DEF StaleSuccess, StaleFail, LoadFail, history
  <1>6. CASE Resume
    BY <1>4, <1>6 DEF Resume, model, history
  <1>7. CASE Clear
    BY <1>7 DEF Clear
  <1>8. CASE UNCHANGED vars
    BY <1>4, <1>8 DEF vars, model, history
  <1> QED
    BY <1>1, <1>2, <1>3, <1>4, <1>5, <1>6, <1>7, <1>8 DEF Next, Answer, StaleAnswer

\* Every step keeps the network answers of a sequential screen in page order.
LEMMA OrderStep ==
    TypeOK /\ FreshScreen /\ ClearedIdle /\ OneRequest /\ PageNumberCountsAnswers
    /\ InOrderWhenSequential /\ [Next]_vars => InOrderWhenSequential'
  <1> SUFFICES ASSUME TypeOK, FreshScreen, ClearedIdle, OneRequest, PageNumberCountsAnswers,
                      InOrderWhenSequential, [Next]_vars, Paged, ~overlapped', ~refreshed',
                      NEW i \in 1..Len(dataList'), ~dataList'[i].fromCache
               PROVE  dataList'[i].page = i - 1 - Cached'
    BY DEF InOrderWhenSequential
  <1>1. CASE Open
    <2>1. <<>> \in Seq(Chunk) /\ "LOADING" \in ViewStatus /\ NewModel(<<>>, "LOADING")
      BY <1>1 DEF ViewStatus, Open
    <2>2. \A j \in 1..Len(dataList') : dataList'[j].fromCache
      BY <2>1, NewModelCount
    <2> QED
      BY <2>2
  <1>2. CASE Recreate
    <2>1. dataList \in Seq(Chunk) /\ status \in ViewStatus /\ NewModel(dataList, status)
      BY <1>2 DEF TypeOK, Recreate
    <2>2. FirstBean = NoData => dataList = <<>>
      BY FirstBeanType DEF FreshScreen
    <2>3. \A j \in 1..Len(dataList') : dataList'[j].fromCache
      BY <2>1, <2>2, NewModelCount
    <2> QED
      BY <2>3
  <1>3. CASE dataList' = dataList /\ ~overlapped /\ ~refreshed
    BY <1>3 DEF InOrderWhenSequential, Cached
  <1>4. ASSUME NEW r \in inFlight, AnswerData(r)
        PROVE  dataList'[i].page = i - 1 - Cached'
    <2> DEFINE x == [page |-> r.page, fromCache |-> FALSE]
    <2> DEFINE s == IF isRefresh THEN <<>> ELSE dataList
    <2> DEFINE k == IF s # <<>> /\ s[1].fromCache THEN 1 ELSE 0
    <2>1. x \in Chunk /\ ~x.fromCache /\ x.page = r.page
      BY DEF TypeOK, Request, Chunk
    <2>2. s \in Seq(Chunk) /\ dataList' = s \o <<x>>
      BY <1>4 DEF TypeOK, AnswerData
    <2>3. ~cleared /\ ~overlapped /\ ~refreshed /\ r.page = pageNumber
      BY <1>4 DEF ClearedIdle, AnswerData, history, OneRequest
    <2>4. r.page = Len(s) - k
      <3>1. CASE isRefresh
        BY <2>3, <3>1 DEF OneRequest
      <3>2. CASE ~isRefresh
        BY <2>3, <3>2 DEF PageNumberCountsAnswers, Cached
      <3> QED
        BY <3>1, <3>2
    <2>5. \A j \in 1..Len(s) : ~s[j].fromCache => s[j].page = j - 1 - k
      <3>1. CASE isRefresh
        BY <3>1
      <3>2. CASE ~isRefresh
        BY <2>3, <3>2 DEF InOrderWhenSequential, Cached
      <3> QED
        BY <3>1, <3>2
    <2>6. k \in {0, 1}
      OBVIOUS
    <2> HIDE DEF x, s
    <2>7. /\ Len(dataList') = Len(s) + 1
          /\ \A j \in 1..Len(s) : dataList'[j] = s[j]
          /\ dataList'[Len(s) + 1] = x
          /\ Cached' = k
      BY <2>1, <2>2, AppendCount
    <2> HIDE DEF k
    <2>8. CASE i \in 1..Len(s)
      BY <2>5, <2>7, <2>8
    <2>9. CASE i = Len(s) + 1
      BY <2>1, <2>2, <2>4, <2>6, <2>7, <2>9
    <2> QED
      BY <2>2, <2>7, <2>8, <2>9
  <1>5. ASSUME NEW r \in inFlight, AnswerEmpty(r)
        PROVE  dataList' = dataList /\ ~overlapped /\ ~refreshed
    <2>1. ~isRefresh
      BY <1>5 DEF AnswerEmpty
    <2> QED
      BY <1>5, <2>1 DEF AnswerEmpty, history
  <1>6. CASE Refresh \/ LoadNextPage \/ Retry
    BY <1>3, <1>6 DEF Refresh, LoadNextPage, Retry, Load
  <1>7. ASSUME NEW r \in inFlight, AnswerFail(r)
        PROVE  dataList' = dataList /\ ~overlapped /\ ~refreshed
    BY <1>7 DEF AnswerFail, LoadFail, history
  <1>8. ASSUME NEW r \in stale, StaleSuccess(r) \/ StaleFail(r)
        PROVE  dataList' = dataList /\ ~overlapped /\ ~refreshed
    BY <1>8 DEF StaleSuccess, StaleFail, LoadFail, view, history
  <1>9. CASE Resume \/ Clear \/ UNCHANGED vars
    BY <1>3, <1>9 DEF Resume, Clear, vars, model, view, history
  <1> QED
    BY <1>1, <1>2, <1>3, <1>4, <1>5, <1>6, <1>7, <1>8, <1>9 DEF Next, Answer, StaleAnswer

\* For every bound, on a screen that asks for pages: requests sent one at a time fill
\* the list with pages 0, 1, 2, ..., nothing repeated and nothing skipped.
THEOREM PagesInOrder == Spec => []InOrderWhenSequential
  <1> DEFINE IInv == /\ TypeOK /\ FreshScreen /\ ClearedIdle /\ OneRequest
                     /\ PageNumberCountsAnswers /\ InOrderWhenSequential
  <1>1. Init => /\ FreshScreen /\ ClearedIdle /\ OneRequest
                /\ PageNumberCountsAnswers /\ InOrderWhenSequential
    BY DEF Init, FreshScreen, ClearedIdle, OneRequest, PageNumberCountsAnswers, Cached,
           InOrderWhenSequential
  <1>2. IInv /\ [Next]_vars => IInv'
    BY TypeStep, FreshStep, IdleStep, RequestStep, CountStep, OrderStep
  <1>3. Spec => []TypeOK
    BY TypeCorrect
  <1> QED
    BY <1>1, <1>2, <1>3, PTL DEF Spec
=============================================================================
