----------------------------- MODULE MvvmPaging -----------------------------
(***************************************************************************)
(* A paged list screen: MvvmBaseModel (the paging model with its cache),   *)
(* CookListModel or NewsListModel (the requests), MvvmBaseViewModel (the   *)
(* list and the view status), BaseMvvmActivity or BaseMvvmFragment with    *)
(* CookListActivity or NewsListFragment (the page on screen).              *)
(*                                                                         *)
(* Requests run on RxJava io threads, so their answers reach the main      *)
(* thread in any order; everything else runs on the main thread, one       *)
(* handler at a time.  A handler is one action, together with the LiveData *)
(* values it posts.  LiveData, LoadSir, SmartRefreshLayout and the server  *)
(* are outside the repository.                                             *)
(***************************************************************************)
EXTENDS Integers, Sequences, FiniteSets

CONSTANTS MaxRequests,     \* bound on the requests sent
          Predefined,      \* does the apk carry predefined data?
          Paged,           \* does a request carry the page number?
          RetryRefreshes,  \* does a click on the error page refresh, or load more?
          NoData           \* nothing in the cache

ASSUME RequestsAssumption == MaxRequests \in Nat \ {0}
\* CookList carries predefined data and asks for pages; NewsList refreshes on retry.
ASSUME ScreenAssumption ==
    /\ Predefined \in BOOLEAN /\ Paged \in BOOLEAN /\ RetryRefreshes \in BOOLEAN
    /\ Predefined \/ RetryRefreshes
ASSUME NoDataAssumption == NoData \notin [page : Nat, empty : BOOLEAN]

VARIABLES
    isRefresh,   \* MvvmBaseModel.isRefresh
    pageNumber,  \* MvvmBaseModel.pageNumber
    inFlight,    \* requests of the current model, sent and not answered
    stale,       \* requests of models that init() has replaced since
    issued,      \* number of requests sent
    cleared,     \* no screen: not opened yet, or the view model was cleared
    cache,       \* the saved bean: NoData, or the page it holds
    dataList,    \* MvvmBaseViewModel.dataList, one entry per answer added to it
    status,      \* viewStatusLiveData
    page,        \* what LoadSir shows
    spinner,     \* the gesture SmartRefreshLayout is showing as running
    overlapped,  \* history: was a request sent while another was in flight?
    refreshed    \* history: was refresh() called on this screen?

model   == <<isRefresh, pageNumber, inFlight, stale, issued, cleared>>
view    == <<dataList, status, page, spinner>>
history == <<overlapped, refreshed>>
vars    == <<model, cache, view, history>>

Request == [id : 1..MaxRequests, page : Nat]
\* A request that outlived its model, with that model's last isRefresh.
StaleRequest == [id : 1..MaxRequests, page : Nat, refresh : BOOLEAN]
\* A list of items as the model sees it: which page, and whether it came from
\* the cache.  An answer without items adds no entry.
Chunk == [page : Nat, fromCache : BOOLEAN]
Bean == [page : Nat, empty : BOOLEAN]
ViewStatus == {"LOADING", "EMPTY", "SHOW_CONTENT", "NO_MORE_DATA",
               "REFRESH_ERROR", "LOAD_MORE_FAILED"}

TypeOK ==
    /\ isRefresh \in BOOLEAN
    /\ pageNumber \in Nat
    /\ inFlight \in SUBSET Request
    /\ stale \in SUBSET StaleRequest
    /\ issued \in 0..MaxRequests
    /\ cleared \in BOOLEAN
    /\ cache \in Bean \cup {NoData}
    /\ dataList \in Seq(Chunk)
    /\ status \in ViewStatus
    /\ page \in {"loading", "empty", "error", "content"}
    /\ spinner \in {"none", "refresh", "more"}
    /\ overlapped \in BOOLEAN
    /\ refreshed \in BOOLEAN
-----------------------------------------------------------------------------
\* getCachedDataAndLoad: the cached bean, else the predefined one, else nothing.
FirstBean ==
    IF cache # NoData THEN cache
    ELSE IF Predefined THEN [page |-> 0, empty |-> FALSE] ELSE NoData

Chunks(bean, fromCache) ==
    IF bean.empty THEN <<>> ELSE <<[page |-> bean.page, fromCache |-> fromCache]>>

\* What onChanged leaves on screen for a list that was just shown as content.
PageFor(s, list) ==
    CASE s = "LOADING" -> "loading"
      [] s = "EMPTY" -> "empty"
      [] s = "REFRESH_ERROR" /\ list = <<>> -> "error"
      [] OTHER -> "content"
-----------------------------------------------------------------------------
\* Before the screen is first opened, on a fresh install.
Init ==
    /\ isRefresh = TRUE
    /\ pageNumber = 0
    /\ inFlight = {}
    /\ stale = {}
    /\ issued = 0
    /\ cleared = TRUE
    /\ cache = NoData
    /\ dataList = <<>>
    /\ status = "LOADING"
    /\ page = "loading"
    /\ spinner = "none"
    /\ overlapped = FALSE
    /\ refreshed = FALSE

\* init() of the view model, which holds list and st: a new model, the listener
\* registered, getCachedDataAndLoad, and the first load().
NewModel(list, st) ==
    /\ issued < MaxRequests
    /\ isRefresh' = TRUE
    /\ pageNumber' = 0
    /\ issued' = issued + 1
    /\ inFlight' = {[id |-> issued + 1, page |-> 0]}
    /\ dataList' = IF FirstBean = NoData THEN list ELSE Chunks(FirstBean, TRUE)
    /\ status' = IF FirstBean = NoData THEN st ELSE "SHOW_CONTENT"
    /\ page' = PageFor(status', dataList')
    /\ spinner' = "none"
    /\ overlapped' = FALSE
    /\ refreshed' = FALSE
    /\ UNCHANGED cache

\* The screen is opened with a new view model.
Open ==
    /\ cleared
    /\ cleared' = FALSE
    /\ NewModel(<<>>, "LOADING")
    /\ UNCHANGED stale

\* A configuration change: getViewModel finds the view model and calls init()
\* again; the requests of the model it replaces are not cancelled.
Recreate ==
    /\ ~cleared
    /\ stale' = stale \cup
         {[id |-> r.id, page |-> r.page, refresh |-> isRefresh] : r \in inFlight}
    /\ NewModel(dataList, status)
    /\ UNCHANGED cleared

\* The page a request sent now asks for: CookListModel's load() sends pageNumber,
\* NewsListModel's the channel only.
Asked == IF Paged THEN pageNumber ELSE 0

\* Mutant of Load: the next page is asked for one too far.
LoadSkipsPage(refresh) ==
    /\ ~cleared
    /\ issued < MaxRequests
    /\ isRefresh' = refresh
    /\ issued' = issued + 1
    /\ inFlight' = inFlight \cup {[id |-> issued + 1, page |-> Asked + 1]}
    /\ overlapped' = (overlapped \/ inFlight # {})
    /\ refreshed' = (refreshed \/ refresh)
    /\ UNCHANGED <<pageNumber, stale, cleared, cache, dataList, status, page>>

\* refresh() and loadNexPage(): isRefresh is set, then load() sends the page number of
\* this moment, if any.
Load(refresh) ==
    /\ ~cleared
    /\ issued < MaxRequests
    /\ isRefresh' = refresh
    /\ issued' = issued + 1
    /\ inFlight' = inFlight \cup {[id |-> issued + 1, page |-> Asked]}
    /\ overlapped' = (overlapped \/ inFlight # {})
    /\ refreshed' = (refreshed \/ refresh)
    /\ UNCHANGED <<pageNumber, stale, cleared, cache, dataList, status, page>>

\* A pull to refresh: onRefresh, tryToRefresh, refresh().
Refresh ==
    /\ page = "content" /\ spinner = "none"
    /\ spinner' = "refresh"
    /\ Load(TRUE)

\* Scrolling past the end: onLoadMore, tryToLoadNextPage, loadNexPage().
LoadNextPage ==
    /\ page = "content" /\ spinner = "none"
    /\ spinner' = "more"
    /\ Load(FALSE)

\* A click on the empty or the error page: onReload, onRetryBtnClick.
Retry ==
    /\ page \in {"empty", "error"}
    /\ Load(RetryRefreshes)
    /\ UNCHANGED spinner

\* Mutant of AnswerData: loadSuccess does not reset the page number.
AnswerDataKeepsPage(r) ==
    /\ r \in inFlight
    /\ inFlight' = inFlight \ {r}
    /\ pageNumber' = pageNumber + 1
    /\ dataList' = (IF isRefresh THEN <<>> ELSE dataList)
                     \o <<[page |-> r.page, fromCache |-> FALSE]>>
    /\ cache' = IF isRefresh THEN [page |-> r.page, empty |-> FALSE] ELSE cache
    /\ status' = "SHOW_CONTENT"
    /\ page' = "content"
    /\ spinner' = "none"
    /\ UNCHANGED <<isRefresh, stale, issued, cleared, history>>

\* onNext with items: loadSuccess and onLoadFinish.  isRefresh is the flag of the
\* request sent last, whichever request this answers.
AnswerData(r) ==
    /\ r \in inFlight
    /\ inFlight' = inFlight \ {r}
    /\ pageNumber' = (IF isRefresh THEN 0 ELSE pageNumber) + 1
    /\ dataList' = (IF isRefresh THEN <<>> ELSE dataList)
                     \o <<[page |-> r.page, fromCache |-> FALSE]>>
    /\ cache' = IF isRefresh THEN [page |-> r.page, empty |-> FALSE] ELSE cache
    /\ status' = "SHOW_CONTENT"
    /\ page' = "content"
    /\ spinner' = "none"
    /\ UNCHANGED <<isRefresh, stale, issued, cleared, history>>

\* onNext without items: EMPTY does not end the gesture, NO_MORE_DATA does
\* (loadEnd).
AnswerEmpty(r) ==
    /\ r \in inFlight
    /\ inFlight' = inFlight \ {r}
    /\ pageNumber' = IF isRefresh THEN 0 ELSE pageNumber
    /\ dataList' = IF isRefresh THEN <<>> ELSE dataList
    /\ cache' = IF isRefresh THEN [page |-> r.page, empty |-> TRUE] ELSE cache
    /\ status' = IF isRefresh THEN "EMPTY" ELSE "NO_MORE_DATA"
    /\ page' = IF isRefresh THEN "empty" ELSE page
    /\ spinner' = IF isRefresh THEN spinner ELSE "none"
    /\ UNCHANGED <<isRefresh, stale, issued, cleared, history>>

\* onLoadFail and the observers: loadEnd ends the gesture.
LoadFail(refresh) ==
    /\ status' = IF refresh THEN "REFRESH_ERROR" ELSE "LOAD_MORE_FAILED"
    /\ page' = IF refresh /\ dataList = <<>> THEN "error" ELSE page
    /\ spinner' = "none"
    /\ UNCHANGED <<isRefresh, pageNumber, issued, cleared, cache, dataList, history>>

\* Mutant of AnswerFail: the failure does not end the gesture (no loadEnd).
AnswerFailKeepsSpinner(r) ==
    /\ r \in inFlight
    /\ inFlight' = inFlight \ {r}
    /\ status' = IF isRefresh THEN "REFRESH_ERROR" ELSE "LOAD_MORE_FAILED"
    /\ page' = IF isRefresh /\ dataList = <<>> THEN "error" ELSE page
    /\ UNCHANGED <<isRefresh, pageNumber, stale, issued, cleared, cache, dataList,
                   spinner, history>>

\* Mutant of AnswerFail: the failure takes back a page.
AnswerFailTakesPageBack(r) ==
    /\ r \in inFlight
    /\ inFlight' = inFlight \ {r}
    /\ pageNumber' = pageNumber - 1
    /\ UNCHANGED <<isRefresh, stale, issued, cleared, cache, view, history>>

\* onError: loadFail and onLoadFail.
AnswerFail(r) ==
    /\ r \in inFlight
    /\ inFlight' = inFlight \ {r}
    /\ LoadFail(isRefresh)
    /\ UNCHANGED stale

\* onNext on a replaced model: onLoadFinish ignores it, the cache is saved as long as
\* the listener, weakly held, is there: the view model may go with its screen.
StaleSuccess(r) ==
    /\ r \in stale
    /\ stale' = stale \ {r}
    /\ \/ r.refresh /\ \E e \in BOOLEAN : cache' = [page |-> r.page, empty |-> e]
       \/ (~r.refresh \/ cleared) /\ UNCHANGED cache
    /\ UNCHANGED <<isRefresh, pageNumber, inFlight, issued, cleared, view, history>>

\* onError on a replaced model: onLoadFail does not ask which model failed.
StaleFail(r) ==
    /\ r \in stale
    /\ stale' = stale \ {r}
    /\ UNCHANGED inFlight
    /\ \/ ~cleared /\ LoadFail(r.refresh)
       \/ cleared /\ UNCHANGED <<isRefresh, pageNumber, issued, cleared, cache, view,
                                 history>>

\* ON_RESUME: the view model posts the list and the status again; the list ends
\* the gesture and shows the content, then the status is applied to it.
Resume ==
    /\ ~cleared
    /\ spinner' = "none"
    /\ page' = PageFor(status, dataList)
    /\ UNCHANGED <<model, cache, dataList, status, history>>

\* onCleared: cancel() disposes the current model's requests; the screen is gone.
Clear ==
    /\ ~cleared
    /\ cleared' = TRUE
    /\ inFlight' = {}
    /\ UNCHANGED <<isRefresh, pageNumber, stale, issued, cache, view, history>>

Answer == \E r \in inFlight : AnswerData(r) \/ AnswerEmpty(r) \/ AnswerFail(r)
StaleAnswer == \E r \in stale : StaleSuccess(r) \/ StaleFail(r)

Next == \/ Open \/ Recreate \/ Refresh \/ LoadNextPage \/ Retry
        \/ Answer \/ StaleAnswer \/ Resume \/ Clear

\* A request is answered or fails: OkHttp's timeouts end it.
Fairness == WF_vars(Answer) /\ WF_vars(StaleAnswer)

Spec == Init /\ [][Next]_vars /\ Fairness
-----------------------------------------------------------------------------
\* How many entries of the list did not come from the network.
Cached == IF dataList # <<>> /\ dataList[1].fromCache THEN 1 ELSE 0

\* The page number the next request will carry equals the number of network
\* answers in the list, however answers, refreshes, resumes and configuration
\* changes interleave; only the first entry may come from the cache.
PageNumberCountsAnswers ==
    /\ \A i \in 2..Len(dataList) : ~dataList[i].fromCache
    /\ ~cleared => pageNumber = Len(dataList) - Cached

\* On a screen that asks for pages, with one request at a time and no refresh, the
\* network answers in the list are pages 0, 1, 2, ... : nothing is repeated and nothing
\* is skipped, also after failures, empty answers, retries and answers to a replaced
\* model.
InOrderWhenSequential ==
    Paged /\ ~overlapped /\ ~refreshed =>
        \A i \in 1..Len(dataList) :
            ~dataList[i].fromCache => dataList[i].page = i - 1 - Cached

\* A running gesture on a visible list always has a request that will end it.
NoOrphanSpinner ==
    ~cleared /\ page = "content" /\ spinner # "none" => inFlight # {}

\* A pull to refresh or a load-more gesture stops, or leaves an empty page behind.
SpinnerStops == spinner # "none" ~> spinner = "none" \/ page = "empty" \/ cleared
=============================================================================
