------------------------------ MODULE Workbench ------------------------------
(***************************************************************************)
(* The pages of one agent in a wide browser window: the dashboard, the     *)
(* processes, the services, the containers with their detail, the metrics  *)
(* of a container and the diagnoses.  A page keeps its search, order and   *)
(* tabs while it stays mounted; what is selected lives in the address bar  *)
(* (processes, services) or in the page (containers).  The metrics of a    *)
(* container come from one request that is not cancelled.                  *)
(*                                                                         *)
(* site: an agent's own pages, the drill-down of an agent in a hub, or the *)
(* same pages at the root of a hub, where related links lead.  On an agent *)
(* every page has a hook for the snapshot, which begins with none; in the  *)
(* drill-down the layout has one for all pages; at the root there is none. *)
(* Whether a page of the drill-down is one of a hub's agent, its hooks ask *)
(* for one by one: until /api/meta has answered, and for good when it has  *)
(* failed, they take the pages for an agent's own.                         *)
(***************************************************************************)
EXTENDS SplitViews

CONSTANTS
    Payloads,        \* what a snapshot holds: its containers, processes, services
    Queries,         \* searches
    TypedIds,        \* ids of containers that an address may hold
    Insights,        \* what the diagnosis engine may have found
    NoSnapshot, NoId,
    MaxCards,        \* containers the dashboard links to (6)
    MaxOlder,        \* bound: older requests under way
    MaxItems,        \* bound: insights listed
    MaxPolls,        \* bound: snapshots of the host that arrive
    MaxMoves         \* bound: clicks of the user

ASSUME BoundsAssumption ==
    /\ {MaxCards, MaxOlder, MaxItems, MaxPolls, MaxMoves} \subseteq Nat
    /\ NoSnapshot \notin Payloads /\ NoId \notin TypedIds /\ NoQuery \notin Queries

Sites == {"agent", "drillDown", "hubRoot"}
Lists == {"processes", "services"}
Pages == Lists \cup {"dashboard", "containers", "container-metrics", "diagnostics"}
Tabs  == Lists \cup {"overview"}
Keys  == {"pid", "cpu", "mem", "user"}

\* useAgentBasePath, as it is mounted by useIsHubAgentContext, by useAgentHref
\* and for the links to the other containers; each has a useMeta of its own.
BaseHooks == {"context", "href", "base"}

Elements(rows)  == {rows[i] : i \in DOMAIN rows}
AllOf(field)    == UNION {Elements(p[field]) : p \in Payloads}
Ids             == {c.id : c \in AllOf("containers")} \cup TypedIds
Names           == {s.name : s \in AllOf("services")}
Pids            == {p.pid : p \in AllOf("processes")}

\* A snapshot has all of its lists; an insight is dated.
ASSUME DataAssumption ==
    /\ \A p \in Payloads :
          /\ \A kind \in Lists \cup {"containers"} : p[kind] \in Seq(Elements(p[kind]))
          /\ \A s \in Elements(p.services)     : "name" \in DOMAIN s /\ s.name \in Seq(Elements(s.name))
    /\ \A i \in Insights : i.detectedAt \in Nat

\* The key of a row, which a link names.
RowKey == [processes |-> "pid", services |-> "name"]

NoParams == [id |-> NoId, tab |-> "overview", pid |-> NoDetail, service |-> NoDetail]
Params   == [id : Ids \cup {NoId}, tab : Tabs, pid : Pids \cup {NoDetail},
             service : Names \cup {NoDetail}]

FreshBox(u) == [search |-> NoQuery, selectedId |-> u.id, tab |-> "overview"]

VARIABLES
    site, page, url,   \* where the browser is
    snapshot,          \* useMetricsContext: what the host's snapshot holds
    known,             \* the hooks that know that the page is one of a hub's agent
    box,               \* ContainersWorkbench, ContainerDetail: search, selectedId, tab
    view,              \* ProcessSplitView or ServiceSplitView, whichever is mounted
    hook,              \* useContainerMetrics
    items,             \* useDiagnostics
    named,             \* record: what the related link named, until the next click
    polls, moves

placeVars == <<site, page, url, snapshot, known, box>>
vars == <<placeVars, view, hook, items, named, polls, moves>>

place == [site |-> site, page |-> page, url |-> url, snapshot |-> snapshot, known |-> known, box |-> box]

------------------------------------------------------------------------------
(* What is shown at a place. *)

Containers(at) == IF at.snapshot = NoSnapshot THEN <<>> ELSE at.snapshot.containers

\* ContainersWorkbench: the first row stands in for one that is not listed.
Selected(at) ==
    LET rows == Filter(Containers(at), at.box.search)
        hit  == Find(rows, LAMBDA c : c.id = at.box.selectedId)
    IN  IF hit # NoDetail \/ rows = <<>> THEN hit ELSE rows[1]

\* useIsHubAgentContext
InHub(at) == at.site = "drillDown" /\ "context" \in at.known

\* The hooks of a page that wait for meta: a detail has its own.
MetaHooks(at) ==
    CASE at.site # "drillDown" -> {}
      [] at.site = "drillDown" /\ at.page = "dashboard" -> {"href"}
      [] at.site = "drillDown" /\ at.page = "containers" ->
            IF Selected(at) = NoDetail THEN {} ELSE {"context", "href"}
      [] at.site = "drillDown" /\ at.page = "container-metrics" -> BaseHooks
      [] OTHER -> {}

\* ContainerMetricsPage: an id may be shortened.
HostContainer(at) ==
    IF at.url.id = NoId THEN NoDetail
    ELSE Find(Containers(at), LAMBDA c : IsPrefix(at.url.id, c.id) \/ IsPrefix(c.id, at.url.id))

\* The full page, not one of its four notices.
MetricsPage(at) ==
    /\ at.page = "container-metrics" /\ ~InHub(at)
    /\ HostContainer(at) # NoDetail /\ HostContainer(at).agent

\* The link to it from the detail of a container.
MetricsLink(at) ==
    /\ at.page = "containers" /\ Selected(at) # NoDetail /\ Selected(at).agent
    /\ ~InHub(at) \/ at.box.tab = "overview"

\* The other containers of the Compose project, in the snapshot of the
\* overview: on an agent it has a hook of its own, ahead of the list or behind.
Overviews(at) == IF at.site = "agent" THEN Payloads ELSE {at.snapshot}
Peers(at, c)  == {x \in UNION {Elements(p.containers) : p \in Overviews(at)} :
                    x.project = c.project /\ x.project # NoDetail /\ x.id # c.id}

\* useContainerMetrics is mounted, and the container it is called with.
Mounted(at) == \/ at.page = "container-metrics"
               \/ at.page = "containers" /\ Selected(at) # NoDetail

\* Mutated form of Asked: a plain container is asked for its metrics as well.
AskedAny(at) ==
    IF InHub(at) THEN NoId
    ELSE IF at.page = "containers" THEN Selected(at).id ELSE at.url.id

Asked(at) ==
    IF InHub(at) \/ (at.page = "containers" /\ ~Selected(at).agent) THEN NoId
    ELSE IF at.page = "containers" THEN Selected(at).id ELSE at.url.id

\* The list that is mounted: which one, where, of which payload.
NoList == [kind |-> "none"]

ListAt(at, h) ==
    CASE at.page \in Lists /\ at.snapshot # NoSnapshot ->
            [kind |-> at.page, surface |-> "page"]
      [] /\ at.page = "containers" /\ at.box.tab # "overview" /\ h.metrics # NoSnapshot
         /\ Selected(at) # NoDetail /\ Selected(at).agent ->
            [kind |-> at.box.tab, surface |-> "containerDetail"]
      [] MetricsPage(at) /\ at.url.tab # "overview" /\ h.metrics # NoSnapshot ->
            [kind |-> at.url.tab, surface |-> "page"]
      [] OTHER -> NoList

Source == IF page \in Lists THEN snapshot ELSE hook.metrics

FreshView(list) ==
    [search |-> NoQuery, key |-> "cpu", asc |-> FALSE, toggled |-> {},
     mode |-> IF list # NoList /\ list.surface = "containerDetail" THEN "list" ELSE "tree"]

List == ListAt(place, hook)

Matching == Filter(Source[List.kind], view.search)

\* The rows of the mounted list.
Rows ==
    CASE List.kind = "processes" -> SortProcesses(Matching, view.key, view.asc)
      [] List.kind = "services" /\ view.mode = "list" -> Matching
      [] List.kind = "services" /\ view.mode = "tree" -> TreeRows(Matching, view.toggled)
      [] OTHER -> <<>>

\* The process or the service whose detail is shown.
Detail ==
    CASE List.kind = "processes" -> Find(Matching, LAMBDA p : p.pid = url.pid)
      [] List.kind = "services"  -> Find(Matching, LAMBDA s : s.name = url.service)
      [] OTHER -> NoDetail

Related ==
    CASE Detail = NoDetail -> <<>>
      [] Detail # NoDetail /\ List.kind = "processes" ->
            Select(Source.services, LAMBDA s : Linked(s, Detail))
      [] Detail # NoDetail /\ List.kind = "services"  ->
            Select(Source.processes, LAMBDA p : Linked(Detail, p))

------------------------------------------------------------------------------
(* A render: what becomes of the hook and of the list at another place. *)

\* awaited: the answer for the container asked for is under way; older: so many
\* are for containers that were asked for before.
NoHook == [asked |-> NoId, awaited |-> FALSE, older |-> 0, metrics |-> NoSnapshot,
           unavailable |-> FALSE]

Ask(h, id) ==
    [h EXCEPT !.asked = id, !.awaited = TRUE, !.older = IF h.awaited THEN @ + 1 ELSE @]

Stays(at) == at.page = page /\ at.site = site

HookAt(at) ==
    LET held == IF Stays(at) /\ Mounted(place) THEN hook ELSE NoHook
        id   == Asked(at)
    IN  IF ~Mounted(at) THEN NoHook
        ELSE IF id = held.asked THEN held
        ELSE IF id # NoId THEN Ask(held, id)
        ELSE [Ask(held, NoId) EXCEPT !.awaited = FALSE, !.metrics = NoSnapshot, !.unavailable = FALSE]

\* A list that is mounted anew forgets its search, order, mode and branches.
ViewAt(at, h) ==
    LET list == ListAt(at, h)
    IN  IF Stays(at) /\ list = List THEN view ELSE FreshView(list)

\* The tab of the detail goes with the detail, and what a hook knows with the
\* component it is mounted in.
Settle(at) ==
    [at EXCEPT !.box   = CASE at.page # "containers" -> FreshBox(NoParams)
                           [] at.page = "containers" /\ Selected(at) = NoDetail -> [@ EXCEPT !.tab = "overview"]
                           [] OTHER -> @,
               !.known = IF Stays(at) THEN @ \cap MetaHooks(at) ELSE {}]

Show(at) ==
    LET s == Settle(at)
    IN  /\ site' = s.site /\ page' = s.page /\ url' = s.url
        /\ snapshot' = s.snapshot /\ known' = s.known /\ box' = s.box
        /\ hook' = HookAt(s) /\ hook'.older <= MaxOlder
        /\ view' = ViewAt(s, hook')
        /\ items' = IF s.page = "diagnostics" THEN items ELSE <<>>

Count == moves < MaxMoves /\ moves' = moves + 1 /\ UNCHANGED polls
Click == Count /\ named' = NoDetail

\* A page that is left forgets its state, on an agent its snapshot too.
Leave(st, p, u) ==
    [site |-> st, page |-> p, url |-> u, known |-> known,
     snapshot |-> IF st = site /\ (p = page \/ site = "drillDown") THEN snapshot ELSE NoSnapshot,
     box |-> IF st = site /\ p = page THEN box ELSE FreshBox(u)]

\* Mutated form of Follow: the query of the link is dropped.
FollowBare(st, p, u) == Show(Leave(st, p, NoParams))

\* A link.
Follow(st, p, u) == Show(Leave(st, p, u))

\* Where the links of a hook lead: without an answer to the root of the hub.
Base(h) == IF site = "drillDown" /\ h \notin known THEN "hubRoot" ELSE site

------------------------------------------------------------------------------
(* The data. *)

Init ==
    /\ site \in {"agent", "drillDown"}
    /\ page \in {"dashboard", "containers", "container-metrics"}
    /\ url \in {NoParams} \cup {[NoParams EXCEPT !.id = id] : id \in TypedIds}
    /\ (page = "dashboard" => url = NoParams)
    /\ snapshot = NoSnapshot /\ known = {} /\ named = NoDetail
    /\ box = IF page = "containers" THEN FreshBox(url) ELSE FreshBox(NoParams)
    /\ view = FreshView(NoList)
    /\ hook = IF page = "container-metrics" /\ url.id # NoId
              THEN Ask(NoHook, url.id) ELSE NoHook
    /\ items = <<>> /\ polls = 0 /\ moves = 0

\* No page at the root of a hub has a snapshot.
HostSnapshot(p) ==
    /\ site # "hubRoot"
    /\ polls < MaxPolls /\ polls' = polls + 1
    /\ Show([place EXCEPT !.snapshot = p])
    /\ UNCHANGED <<named, moves>>

\* /api/meta answers hook h.
MetaArrives(h) ==
    /\ h \in MetaHooks(place) \ known
    /\ Show([place EXCEPT !.known = @ \cup {h}])
    /\ UNCHANGED <<named, polls, moves>>

\* Mutated form of Answered: an answer without a snapshot is not noticed.
AnsweredSilently(h, got) ==
    IF got = NoSnapshot THEN h ELSE [h EXCEPT !.metrics = got, !.unavailable = FALSE]

\* What an answer does, whichever container it is for: a snapshot, or none
\* (204, 404, no connection).
Answered(h, got) ==
    IF got = NoSnapshot THEN [h EXCEPT !.unavailable = TRUE]
    ELSE [h EXCEPT !.metrics = got, !.unavailable = FALSE]

\* A hub has no metrics of a container.
TakeAnswer(h, got) ==
    /\ got = NoSnapshot \/ site = "agent"
    /\ hook' = h /\ view' = ViewAt(place, h)
    /\ UNCHANGED <<placeVars, items, named, polls, moves>>

Answer(got) ==
    /\ hook.awaited
    /\ TakeAnswer([Answered(hook, got) EXCEPT !.awaited = FALSE], got)

\* No request is cancelled: an older one may answer last.
OlderAnswer(got) ==
    /\ hook.older > 0
    /\ TakeAnswer([Answered(hook, got) EXCEPT !.older = @ - 1], got)

Diagnosed ==
    /\ page = "diagnostics"
    /\ items' \in BoundedSeq(Insights, MaxItems)
    /\ UNCHANGED <<placeVars, view, hook, named, polls, moves>>

------------------------------------------------------------------------------
(* The user. *)

\* The sidebar: the pages of the agent.  From the root of a hub it leads back.
Navigate(p) ==
    LET st == IF site = "agent" THEN "agent" ELSE "drillDown"
    IN  /\ Click /\ p # "container-metrics" /\ (p = "diagnostics" => st = "drillDown")
        /\ Follow(st, p, NoParams)

\* The cards of the dashboard.
OpenCard ==
    /\ Click /\ page = "dashboard"
    /\ \E c \in Elements(Take(Containers(place), MaxCards)) :
          Follow(Base("href"), "containers", [NoParams EXCEPT !.id = c.id])

\* The cards of the overview of a container's metrics, whose links lead to
\* the root.
OpenInnerCard ==
    /\ Click /\ MetricsPage(place) /\ url.tab = "overview" /\ hook.metrics # NoSnapshot
    /\ \E c \in Elements(Take(hook.metrics.containers, MaxCards)) :
          Follow(site, "container-metrics", [NoParams EXCEPT !.id = c.id])

OpenMetrics ==
    /\ Click /\ MetricsLink(place)
    /\ Follow(Base("href"), "container-metrics", [NoParams EXCEPT !.id = Selected(place).id])

\* The other agent containers, and the way back, on the metrics page.
SwitchContainer ==
    /\ Click /\ MetricsPage(place)
    /\ \/ \E c \in Elements(Containers(place)) :
            c.agent /\ Follow(Base("base"), page, [NoParams EXCEPT !.id = c.id, !.tab = url.tab])
       \/ Follow(Base("href"), "containers", NoParams)

SelectContainer ==
    /\ Click /\ page = "containers" /\ Selected(place) # NoDetail
    /\ \E c \in Elements(Filter(Containers(place), box.search))
                 \cup IF box.tab = "overview" THEN Peers(place, Selected(place)) ELSE {} :
          Show([place EXCEPT !.box.selectedId = c.id])

SearchContainers(q) ==
    /\ Click /\ page = "containers" /\ snapshot # NoSnapshot
    /\ Show([place EXCEPT !.box.search = q])

\* The tabs of a container's detail, and of its metrics page.
SetTab(t) ==
    /\ Click /\ page = "containers" /\ Selected(place) # NoDetail
    /\ Show([place EXCEPT !.box.tab = t])

SetMetricsTab(t) ==
    /\ Click /\ MetricsPage(place)
    /\ Show([place EXCEPT !.url.tab = t])

\* The fields of the mounted list.
Adjust(v) ==
    view' = v /\ UNCHANGED <<placeVars, hook, items>>

SearchRows(q) == Click /\ List # NoList /\ Adjust([view EXCEPT !.search = q])

\* A detail of a container has no column for the user.
ToggleSort(k) ==
    /\ Click /\ List.kind = "processes" /\ (k = "user" => List.surface = "page")
    /\ Adjust([view EXCEPT !.key = k, !.asc = view.key = k /\ ~view.asc])

SetMode(m) == Click /\ List.kind = "services" /\ Adjust([view EXCEPT !.mode = m])

ToggleBranch ==
    /\ Click /\ List.kind = "services" /\ view.mode = "tree"
    /\ \E n \in Nodes(Matching) :
          /\ [branch |-> n] \in Elements(Rows)
          /\ Adjust([view EXCEPT !.toggled = IF n \in @ THEN @ \ {n} ELSE @ \cup {n}])

\* A row writes the parameter of its list into the address.
SelectProcess(p) ==
    /\ Click /\ List.kind = "processes" /\ p \in Elements(Rows)
    /\ Show([place EXCEPT !.url.pid = p.pid])

SelectService(s) ==
    /\ Click /\ List.kind = "services" /\ s \in Elements(Rows)
    /\ Show([place EXCEPT !.url.service = s.name])

\* The prefixes of the links are the defaults: they lead to the root.
Root == IF site = "agent" THEN "agent" ELSE "hubRoot"

FollowService(s) ==
    /\ Count /\ named' = [kind |-> "services", key |-> s.name]
    /\ List.kind = "processes" /\ s \in Elements(Related)
    /\ Follow(Root, "services", [NoParams EXCEPT !.service = s.name])

FollowProcess(p) ==
    /\ Count /\ named' = [kind |-> "processes", key |-> p.pid]
    /\ List.kind = "services" /\ p \in Elements(Related)
    /\ Follow(Root, "processes", [NoParams EXCEPT !.pid = p.pid])

Next ==
    \/ \E p \in Payloads : HostSnapshot(p)
    \/ \E h \in BaseHooks : MetaArrives(h)
    \/ \E got \in Payloads \cup {NoSnapshot} : Answer(got) \/ OlderAnswer(got)
    \/ Diagnosed
    \/ \E p \in Pages : Navigate(p)
    \/ OpenCard \/ OpenInnerCard \/ OpenMetrics \/ SwitchContainer \/ SelectContainer
    \/ \E q \in Queries \cup {NoQuery} : SearchContainers(q) \/ SearchRows(q)
    \/ \E t \in Tabs : SetTab(t) \/ SetMetricsTab(t)
    \/ \E k \in Keys : ToggleSort(k)
    \/ \E m \in {"tree", "list"} : SetMode(m)
    \/ ToggleBranch
    \/ \E p \in AllOf("processes") : SelectProcess(p) \/ FollowProcess(p)
    \/ \E s \in AllOf("services")  : SelectService(s) \/ FollowService(s)

Spec == Init /\ [][Next]_vars

------------------------------------------------------------------------------
(* Properties. *)

\* Every variable has its type, only agent containers that are listed are
\* asked for their metrics from the list, and a list that is not mounted has
\* no state: ContainersPage, useContainerMetrics.
TypeOK ==
    /\ site \in Sites /\ page \in Pages /\ url \in Params
    /\ snapshot \in Payloads \cup {NoSnapshot} /\ known \subseteq MetaHooks(place)
    /\ box.search \in Queries \cup {NoQuery} /\ box.tab \in Tabs
    /\ box.selectedId \in Ids \cup {NoId}
    /\ view.search \in Queries \cup {NoQuery} /\ view.key \in Keys
    /\ view.toggled \subseteq UNION {Prefixes(n) : n \in Names}
    /\ {view.asc, hook.awaited, hook.unavailable} \subseteq BOOLEAN
    /\ hook.metrics \in Payloads \cup {NoSnapshot} /\ hook.older \in Nat
    /\ page = "containers" =>
          hook.asked \in {NoId} \cup {c.id : c \in {x \in Elements(Containers(place)) : x.agent}}
    /\ items \in Seq(Insights) /\ Len(items) <= MaxItems
    /\ List = NoList => view = FreshView(NoList)

\* The page of an agent container is not left waiting for nothing: it has
\* figures, or the notice that there are none, or the answer for that container
\* is under way; whatever was selected before, in which order the answers came,
\* and when the hub was recognised.  ContainerDetail, useContainerMetrics.
FiguresOrNotice ==
    Mounted(place) /\ Asked(place) # NoId =>
        hook.awaited \/ hook.metrics # NoSnapshot \/ hook.unavailable

\* The tree shows a service that the search leaves exactly as often as the
\* list does when the branches on its path are open, and not at all when one
\* is closed; whatever was searched, opened or polled before.
\* ServiceSplitView: insertService, renderTree.
TreeShowsEach ==
    (List.kind = "services" /\ view.mode = "tree") =>
        \A s \in Elements(Matching) :
            LET times(rows) == Cardinality({i \in DOMAIN rows : rows[i] = s})
                branches    == {n \in Prefixes(s.name) \ {<<>>} :
                                  \E r \in Elements(Matching) : IsStrictPrefix(n, r.name)}
                open        == \A n \in branches : IsOpen(view.toggled, n)
            IN  times(Rows) = IF open /\ s.name # <<>> THEN times(Matching) ELSE 0

\* Where a related link has led, whatever snapshots come after the click: a
\* list that is shown is the one it named, with the process or the service it
\* named in the detail, or nothing when that is gone.
\* ServiceDetailPanel, ProcessDetailPanel, ServicesPage, ProcessesPage.
LinkLands ==
    named # NoDetail /\ List # NoList =>
        LET hits == {r \in Elements(Source[named.kind]) : r[RowKey[named.kind]] = named.key}
        IN  /\ List = [kind |-> named.kind, surface |-> "page"]
            /\ IF hits = {} THEN Detail = NoDetail ELSE Detail \in hits

\* The diagnoses show one card for a cause, the newest insight of it, and
\* the newest cards first.  DiagnosticPanel: dedupeInsights.
EachCauseOnce ==
    LET cards == Dedupe(items)
    IN  /\ \A i \in Elements(items) :
              Cardinality({k \in DOMAIN cards :
                             Cause(cards[k]) = Cause(i) /\ cards[k].detectedAt >= i.detectedAt}) = 1
        /\ Elements(cards) \subseteq Elements(items) /\ Len(cards) = Cardinality({Cause(c) : c \in Elements(cards)})
        /\ \A j, k \in DOMAIN cards : j < k => cards[j].detectedAt >= cards[k].detectedAt
==============================================================================
