------------------------------ MODULE NetworkMap ------------------------------
(***************************************************************************)
(* The network map of the panel (network.js): tabs that show the cascade   *)
(* links as of some revision of the topology draft, and create, edit and   *)
(* delete links with that revision as the one they expect.  The server     *)
(* refuses a change that expects another revision, and a tab that is       *)
(* refused loads the links again and leaves its form as it was.            *)
(*                                                                         *)
(* A link's settings are the number of the change that made them, 0 for no *)
(* link.                                                                   *)
(***************************************************************************)
EXTENDS Integers, FiniteSets

CONSTANTS
    Tab,            \* open pages
    MapLink,        \* cascade links
    MaxChanges,     \* bound: changes of the draft
    MapTools        \* whether MCP tools change links

ASSUME MapAssumption == MaxChanges \in Nat \ {0} /\ MapTools \in BOOLEAN

Drawing == [MapLink -> 0 .. MaxChanges]
NoLinks == [k \in MapLink |-> 0]

\* What is not there (yet): the revision of a tab that has loaded nothing, and
\* the part of a request that has not been answered.
None == -1

VARIABLES
    mapRev,         \* CascadeTopologyState.revision
    mapLinks,       \* the CascadeLink documents
    changes,        \* changes so far, and one for what there was before
    linksAt,        \* history: the drawings each revision has had
    tabRev,         \* topologyRevision of each tab
    tabLinks,       \* _allLinks of each tab
    listing,        \* the requests of each tab for the links
    form,           \* the link form of each tab
    request         \* the change each tab has asked for

linkVars == <<mapRev, mapLinks, changes, linksAt>>
tabVars  == <<tabRev, tabLinks, listing, form, request>>
mapVars  == <<linkVars, tabVars>>

\* A listing is asked for by the map or by the form that is being opened.
Asker == {"map", "form"}
NoListing == [on |-> FALSE, read |-> FALSE, links |-> NoLinks, rev |-> None]
NoForm    == [pc |-> "closed", link |-> None, base |-> 0, quiet |-> FALSE]
NoRequest == [pc |-> "none", kind |-> "none", link |-> None, base |-> 0,
              quiet |-> FALSE, expected |-> None, rev |-> None]

\* The links that are there to begin with count as change 1.
MapInit ==
    /\ mapRev = 0 /\ mapLinks \in [MapLink -> {0, 1}] /\ changes = 1
    /\ linksAt = [r \in 0 .. MaxChanges |-> IF r = 0 THEN {mapLinks} ELSE {}]
    /\ tabRev = [t \in Tab |-> None]
    /\ tabLinks = [t \in Tab |-> NoLinks]
    /\ listing = [t \in Tab |-> [a \in Asker |-> NoListing]]
    /\ form = [t \in Tab |-> NoForm]
    /\ request = [t \in Tab |-> NoRequest]

-----------------------------------------------------------------------------
(* Changes of the draft.                                                   *)

\* A change makes link k what it says; removed links are 0.
ChangeLink(k, removed) ==
    /\ changes < MaxChanges /\ changes' = changes + 1
    /\ mapLinks' = [mapLinks EXCEPT ![k] = IF removed THEN 0 ELSE changes + 1]

\* commitDraft: the links and the revision change in one transaction.
NewRevision ==
    /\ mapRev' = mapRev + 1
    /\ linksAt' = [linksAt EXCEPT ![mapRev + 1] = {mapLinks'}]

\* A change by a client of the API that is no tab.
ClientChange ==
    /\ \E k \in MapLink, removed \in BOOLEAN : ChangeLink(k, removed)
    /\ NewRevision
    /\ UNCHANGED tabVars

\* A change of the draft that is about no link: of a route group, or by the
\* maintenance of the L2TP paths that follows a change of a link.
GroupChange ==
    /\ changes < MaxChanges /\ changes' = changes + 1
    /\ mapLinks' = mapLinks
    /\ NewRevision
    /\ UNCHANGED tabVars

\* manage_cascade of the MCP server writes the documents and no revision.
ToolChange ==
    /\ MapTools
    /\ \E k \in MapLink, removed \in BOOLEAN : ChangeLink(k, removed)
    /\ linksAt' = [linksAt EXCEPT ![mapRev] = @ \cup {mapLinks'}]
    /\ UNCHANGED <<mapRev, tabVars>>

-----------------------------------------------------------------------------
(* What a tab loads.                                                       *)

\* loadTopology, on Refresh and after whatever the tab has done.
LoadTopology(t) ==
    /\ ~listing[t]["map"].on
    /\ listing' = [listing EXCEPT ![t]["map"].on = TRUE]
    /\ UNCHANGED <<linkVars, tabRev, tabLinks, form, request>>

\* readLinkSnapshot runs two queries side by side, the links ...
ReadLinks(t, a) ==
    /\ listing[t][a].on /\ ~listing[t][a].read
    /\ listing' = [listing EXCEPT ![t][a].read = TRUE, ![t][a].links = mapLinks]
    /\ UNCHANGED <<linkVars, tabRev, tabLinks, form, request>>

\* ... and the revision.
ReadRevision(t, a) ==
    /\ listing[t][a].on /\ listing[t][a].rev = None
    /\ listing' = [listing EXCEPT ![t][a].rev = mapRev]
    /\ UNCHANGED <<linkVars, tabRev, tabLinks, form, request>>

\* applyLinkSnapshot: whatever the tab had is replaced.  What its form was
\* filled from is no longer all the tab has seen.
ApplySnapshot(t, rev, drawing) ==
    /\ tabRev' = [tabRev EXCEPT ![t] = rev]
    /\ tabLinks' = [tabLinks EXCEPT ![t] = drawing]

Loaded(t) ==
    LET l == listing[t]["map"] IN
    /\ l.on /\ l.read /\ l.rev # None
    /\ ApplySnapshot(t, l.rev, l.links)
    /\ listing' = [listing EXCEPT ![t]["map"] = NoListing]
    /\ form' = [form EXCEPT ![t].quiet = FALSE]
    /\ UNCHANGED <<linkVars, request>>

\* A request failed: the tab keeps what it shows.
LoadFails(t) ==
    /\ listing[t]["map"].on
    /\ listing' = [listing EXCEPT ![t]["map"] = NoListing]
    /\ UNCHANGED <<linkVars, tabRev, tabLinks, form, request>>

-----------------------------------------------------------------------------
(* The form of a link.                                                     *)

\* openAddLinkModal lists the links again; openEditLinkModal does the same
\* first, for the link it will edit.
OpenForm(t, k) ==
    /\ form[t].pc = "closed" /\ ~listing[t]["form"].on
    /\ form' = [form EXCEPT ![t] = [NoForm EXCEPT !.pc = "listing", !.link = k]]
    /\ listing' = [listing EXCEPT ![t]["form"].on = TRUE]
    /\ UNCHANGED <<linkVars, tabRev, tabLinks, request>>

\* The listing is there, or it failed and the form opens all the same.
FormListed(t) ==
    LET l == listing[t]["form"]
        next == IF form[t].link = None THEN "open" ELSE "fetching" IN
    /\ form[t].pc = "listing"
    /\ \/ l.read /\ l.rev # None /\ ApplySnapshot(t, l.rev, l.links)
       \/ UNCHANGED <<tabRev, tabLinks>>
    /\ listing' = [listing EXCEPT ![t]["form"] = NoListing]
    /\ form' = [form EXCEPT ![t].pc = next, ![t].quiet = TRUE]
    /\ UNCHANGED <<linkVars, request>>

\* GET /cascade/links/:id: the form is filled from what the server reads now;
\* the link is gone, or the request fails, and it stays open, unfilled.
FillForm(t) ==
    LET k == form[t].link IN
    /\ form[t].pc = "fetching"
    /\ \/ /\ mapLinks[k] # 0
          /\ form' = [form EXCEPT ![t].pc = "open", ![t].base = mapLinks[k]]
       \/ form' = [form EXCEPT ![t].pc = "open", ![t].quiet = FALSE]
    /\ UNCHANGED <<linkVars, tabRev, tabLinks, listing, request>>

CloseModal(t) ==
    /\ form[t].pc = "open"
    /\ form' = [form EXCEPT ![t] = NoForm]
    /\ UNCHANGED <<linkVars, tabRev, tabLinks, listing, request>>

-----------------------------------------------------------------------------
(* What a tab asks for.                                                    *)

Ask(t, r) ==
    /\ request[t].pc = "none"
    /\ request' = [request EXCEPT ![t] = [r EXCEPT !.pc = "sent", !.expected = tabRev[t]]]
    /\ UNCHANGED <<linkVars, tabRev, tabLinks, listing, form>>

\* onAddLinkSubmit: the form, with the revision the tab has at that moment.
SubmitForm(t) ==
    LET f == form[t] IN
    /\ f.pc = "open"
    /\ IF f.link # None
       THEN Ask(t, [NoRequest EXCEPT !.kind = "update", !.link = f.link,
                                     !.base = f.base, !.quiet = f.quiet])
       ELSE \E k \in MapLink : mapLinks[k] = 0 /\ Ask(t, [NoRequest EXCEPT !.kind = "create", !.link = k])

\* _cascadeDelete and the quick link form: from the map as it is shown.
AskDelete(t) == \E k \in MapLink :
    tabLinks[t][k] # 0 /\ Ask(t, [NoRequest EXCEPT !.kind = "delete", !.link = k])

QuickLink(t) == \E k \in MapLink :
    mapLinks[k] = 0 /\ Ask(t, [NoRequest EXCEPT !.kind = "create", !.link = k])

\* deployTopology: what is to be deployed is a revision, not a link.
AskDeploy(t) == Ask(t, [NoRequest EXCEPT !.kind = "deploy"])

\* Mutant of Expected: the revision is not compared.
AnyRevision(t) == request[t].expected # None

\* The guard of commitDraft.
Expected(t) == request[t].expected = mapRev

\* The server carries the change out.
CommitChange(t) ==
    LET r == request[t] IN
    /\ r.pc = "sent" /\ r.kind # "deploy" /\ Expected(t)
    /\ (mapLinks[r.link] = 0) = (r.kind = "create")
    /\ ChangeLink(r.link, r.kind = "delete")
    /\ NewRevision
    /\ request' = [request EXCEPT ![t].pc = "done", ![t].rev = mapRev + 1]
    /\ UNCHANGED <<tabRev, tabLinks, listing, form>>

\* The answer: the revision of this change, the links as they are by then; the
\* tab then loads them again.
Answered(t) ==
    /\ request[t].pc = "done"
    /\ \/ /\ ApplySnapshot(t, request[t].rev, mapLinks)
          /\ listing' = [listing EXCEPT ![t]["map"].on = TRUE]
          /\ form' = [form EXCEPT ![t] =
                 IF request[t].kind = "delete" \/ @.pc # "open"
                 THEN [@ EXCEPT !.quiet = FALSE] ELSE NoForm]
       \* It was lost: the form stays open.
       \/ UNCHANGED <<tabRev, tabLinks, form, listing>>
    /\ request' = [request EXCEPT ![t] = NoRequest]
    /\ UNCHANGED linkVars

\* A deployment is queued, or was queued before, and the map is loaded again.
DeployQueued(t) ==
    /\ request[t].pc = "sent" /\ request[t].kind = "deploy" /\ Expected(t)
    /\ request' = [request EXCEPT ![t] = NoRequest]
    /\ listing' = [listing EXCEPT ![t]["map"].on = TRUE]
    /\ UNCHANGED <<linkVars, tabRev, tabLinks, form>>

\* 409, for a stale revision or a name that is taken: the links are loaded
\* again, and the form stays as it is.  Any other refusal changes nothing.
RefusedChange(t) ==
    /\ request[t].pc = "sent"
    /\ request' = [request EXCEPT ![t] = NoRequest]
    /\ \E conflict \in BOOLEAN :
        listing' = [listing EXCEPT ![t]["map"].on = @ \/ conflict \/ ~Expected(t)]
    /\ UNCHANGED <<linkVars, tabRev, tabLinks, form>>

-----------------------------------------------------------------------------
MapNext ==
    \/ \E t \in Tab :
        \/ LoadTopology(t) \/ Loaded(t)     \/ LoadFails(t)
        \/ \E a \in Asker : ReadLinks(t, a) \/ ReadRevision(t, a)
        \/ \E k \in MapLink \cup {None} : OpenForm(t, k)
        \/ FormListed(t)   \/ FillForm(t)   \/ CloseModal(t)
        \/ SubmitForm(t)   \/ AskDelete(t)  \/ QuickLink(t) \/ AskDeploy(t)
        \/ CommitChange(t)       \/ Answered(t)   \/ RefusedChange(t)
        \/ DeployQueued(t)
    \/ ClientChange \/ GroupChange \/ ToolChange

MapSpec == MapInit /\ [][MapNext]_mapVars

-----------------------------------------------------------------------------
\* A save that the server accepts, from a form whose tab has taken in nothing
\* since it was filled, replaces settings the form was filled from: the link was
\* never anything else at the revision the save gives up, unless a tool that
\* knows no revisions has changed it.
UntouchedSaveIsSafe ==
    [][\A t \in Tab :
        LET r == request[t] IN
        r.pc = "sent" /\ request'[t].pc = "done" /\ r.kind = "update" /\ r.quiet =>
            \E d \in linksAt[mapRev] : d[r.link] = r.base]_mapVars

\* The list of links a tab holds is one that its revision has had: the "versioned
\* link snapshot used by network clients".
SnapshotsAreWhole ==
    \A t \in Tab : tabRev[t] # None => tabLinks[t] \in linksAt[tabRev[t]]
===============================================================================
