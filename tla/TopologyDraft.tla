----------------------------- MODULE TopologyDraft -----------------------------
(***************************************************************************)
(* Editing the cascade topology: links and route groups, the revision that *)
(* fences every edit, and the L2TP path maintenance that follows each link *)
(* edit.  An editor is one REST request: it looks at the topology, commits *)
(* in a transaction if the revision is still the one it saw and the        *)
(* candidate is valid, and after a link edit rebuilds the path of the      *)
(* relay's route group outside any transaction.  MCP tools write links     *)
(* without either.  Meanwhile the relay is installed on, and removed from, *)
(* a route group.                                                          *)
(*                                                                         *)
(* All links are of one mode; a group has at most one path.  A transaction *)
(* is one step: it reads the revision document and writes it, so two of    *)
(* them never overlap, and what it misses of other writers after its       *)
(* snapshot it would have missed by committing earlier.                    *)
(***************************************************************************)
EXTENDS TopologyGraph

CONSTANTS
    DraftLink,      \* link ids
    DraftFrom,      \* [DraftLink -> node]
    DraftTo,        \* [DraftLink -> node]
    GeoLink,        \* links that are geo branches
    BridgeNode,     \* nodes of role bridge
    RelayNode,      \* the node L2TP is installed on
    Group,          \* route group ids
    Editor,         \* requests under way at once
    DirectEdits,    \* whether MCP tools edit links too
    MaxDraft        \* bound on the revision

ASSUME DraftAssumption ==
    /\ GeoLink \subseteq DraftLink /\ "none" \notin Group
    /\ DirectEdits \in BOOLEAN /\ MaxDraft \in Nat

VARIABLES
    links,          \* the CascadeLink documents
    groups,         \* the existing CascadeRouteGroup documents
    groupPath,      \* the path of each, <<>> for none
    draftRev,       \* CascadeTopologyState.revision
    relayGroup,     \* the route group of the installed relay state
    attaching,      \* the group an install found and has yet to record
    editor          \* the requests

draftVars == <<links, groups, groupPath, draftRev, relayGroup, attaching, editor>>

Resting == [pc |-> "idle", kind |-> "none", link |-> 0, group |-> "none",
            path |-> <<>>, base |-> 0]

DraftInit ==
    /\ links = [l \in DraftLink |-> "absent"]
    /\ groups = {}
    /\ groupPath = [g \in Group |-> <<>>]
    /\ draftRev = 0
    /\ relayGroup = "none"
    /\ attaching = "none"
    /\ editor = [e \in Editor |-> Resting]

Existing == {l \in DraftLink : links[l] # "absent"}

ValidDraft(ls, gs, paths) ==
    \A g \in gs : ValidPath(paths[g], {l \in DraftLink : ls[l] = "active"},
                            DraftFrom, DraftTo)

-----------------------------------------------------------------------------
(* Edits.                                                                  *)

Edit(e, r) == editor' = [editor EXCEPT ![e] = r]

LinkKinds == {"create", "activate", "deactivate", "delete"}

\* A request reads what it needs and the revision it will insist on.
AskEdit(e, kind, l, g) ==
    /\ editor[e].pc = "idle"
    /\ Edit(e, [pc |-> "asked", kind |-> kind, link |-> l, group |-> g,
                path |-> IF kind = "save" THEN <<l>> ELSE <<>>, base |-> draftRev])
    /\ UNCHANGED <<links, groups, groupPath, draftRev, relayGroup, attaching>>

AskCreate(e) == \E l \in DraftLink \ Existing : AskEdit(e, "create", l, "none")
AskUpdate(e) == \E l \in Existing, kind \in {"activate", "deactivate"} :
                    AskEdit(e, kind, l, "none")
AskDelete(e) == \E l \in Existing : AskEdit(e, "delete", l, "none")
AskGroup(e)  == \E g \in Group, l \in DraftLink, kind \in {"save", "drop"} :
                    AskEdit(e, kind, l, g)

NewStatus(r) ==
    CASE r.kind \in {"create", "activate"} -> "active"
      [] r.kind = "deactivate"             -> "inactive"
      [] OTHER                             -> "absent"

\* buildCandidate: the links and groups a mutation leads to.  Deleting a link
\* strips the paths that use it and drops groups left without one, unless the
\* installed relay refers to them.
CandidateLinks(r) ==
    IF r.kind \in LinkKinds THEN [links EXCEPT ![r.link] = NewStatus(r)] ELSE links

CandidatePaths(r) ==
    CASE r.kind = "save"   -> [groupPath EXCEPT ![r.group] = r.path]
      [] r.kind = "delete" -> [g \in Group |-> IF r.link \in Range(groupPath[g])
                                               THEN <<>> ELSE groupPath[g]]
      [] OTHER             -> groupPath

\* Mutant of CandidateGroups: a group without paths goes, in use or not.
CandidateGroupsInUse(r) ==
    CASE r.kind = "save"   -> groups \cup {r.group}
      [] r.kind = "drop"   -> groups \ {r.group}
      [] r.kind = "delete" -> {g \in groups : CandidatePaths(r)[g] # <<>>}
      [] OTHER             -> groups

CandidateGroups(r) ==
    CASE r.kind = "save"   -> groups \cup {r.group}
      [] r.kind = "drop"   -> groups \ {r.group}
      [] r.kind = "delete" -> {g \in groups : CandidatePaths(r)[g] # <<>>
                                                 \/ g = relayGroup}
      [] OTHER             -> groups

\* Mutant of PersistedPaths: the group updates of a deletion are not written.
PersistedPathsUnstripped(r) ==
    IF r.kind = "save" THEN [groupPath EXCEPT ![r.group] = r.path] ELSE groupPath

\* persistMutation: what is written is not the candidate but the mutation, with
\* the group updates and deletions computed for it.
PersistedPaths(r) ==
    CASE r.kind = "save"   -> [groupPath EXCEPT ![r.group] = r.path]
      [] r.kind = "delete" ->
            [g \in Group |-> IF g \in CandidateGroups(r)
                                /\ CandidatePaths(r)[g] # groupPath[g]
                             THEN CandidatePaths(r)[g] ELSE groupPath[g]]
      [] OTHER             -> groupPath

Found(r) ==
    /\ r.kind = "create" => links[r.link] = "absent"
    /\ r.kind \in LinkKinds \ {"create"} => links[r.link] # "absent"
    /\ r.kind = "drop" => r.group \in groups /\ r.group # relayGroup

\* commitDraft: the revision is the expected one, the candidate is valid.
Commit(e) ==
    LET r == editor[e] IN
    /\ r.pc = "asked"
    /\ r.base = draftRev /\ draftRev < MaxDraft
    /\ Found(r)
    /\ ValidDraft(CandidateLinks(r), CandidateGroups(r), CandidatePaths(r))
    /\ links' = CandidateLinks(r)
    /\ groups' = CandidateGroups(r)
    /\ groupPath' = PersistedPaths(r)
    /\ draftRev' = draftRev + 1
    /\ Edit(e, IF r.kind \in LinkKinds THEN [Resting EXCEPT !.pc = "rebuild"]
                                       ELSE Resting)
    /\ UNCHANGED <<relayGroup, attaching>>

\* 404, 409 or 422; or the panel dies.
Refused(e) ==
    /\ editor[e].pc # "idle"
    /\ Edit(e, Resting)
    /\ UNCHANGED <<links, groups, groupPath, draftRev, relayGroup, attaching>>

-----------------------------------------------------------------------------
(* maintainAutoL2tpPaths, after each link edit.                            *)

\* It reads the relay's state and all links, the inactive ones too, and walks
\* the default chain ...
Rebuild(e) ==
    LET w == DefaultChain(Existing, DraftFrom, DraftTo, GeoLink, BridgeNode,
                          RelayNode) IN
    /\ editor[e].pc = "rebuild"
    /\ Edit(e, IF relayGroup = "none" \/ w.how = "ambiguous" THEN Resting
               ELSE [Resting EXCEPT !.pc = "write", !.group = relayGroup,
                                    !.path = w.path])
    /\ UNCHANGED <<links, groups, groupPath, draftRev, relayGroup, attaching>>

\* ... writes the path, if the group has another one ...
WritePath(e) ==
    LET r == editor[e] IN
    /\ r.pc = "write"
    /\ IF r.group \in groups /\ groupPath[r.group] # r.path
       THEN /\ groupPath' = [groupPath EXCEPT ![r.group] = r.path]
            /\ Edit(e, [Resting EXCEPT !.pc = "bump"])
       ELSE /\ Edit(e, Resting)
            /\ UNCHANGED groupPath
    /\ UNCHANGED <<links, groups, draftRev, relayGroup, attaching>>

\* ... and moves the revision on, whatever it has become.
Bump(e) ==
    /\ editor[e].pc = "bump"
    /\ draftRev < MaxDraft
    /\ draftRev' = draftRev + 1
    /\ Edit(e, Resting)
    /\ UNCHANGED <<links, groups, groupPath, relayGroup, attaching>>

-----------------------------------------------------------------------------
(* The relay, and the MCP tools.                                           *)

\* An install finds the group, and records it some awaits later.
FindGroup(g) ==
    /\ relayGroup = "none" /\ attaching = "none" /\ g \in groups
    /\ attaching' = g
    /\ UNCHANGED <<links, groups, groupPath, draftRev, relayGroup, editor>>

Attach ==
    /\ attaching # "none"
    /\ relayGroup' = attaching /\ attaching' = "none"
    /\ UNCHANGED <<links, groups, groupPath, draftRev, editor>>

Detach ==
    /\ relayGroup # "none"
    /\ relayGroup' = "none"
    /\ UNCHANGED <<links, groups, groupPath, draftRev, attaching, editor>>

\* cascade create and delete of the MCP server.
DirectEdit(l) ==
    /\ DirectEdits
    /\ links' = [links EXCEPT ![l] = IF @ = "absent" THEN "active" ELSE "absent"]
    /\ UNCHANGED <<groups, groupPath, draftRev, relayGroup, attaching, editor>>

DraftNext ==
    \/ \E e \in Editor :
        \/ AskCreate(e) \/ AskUpdate(e) \/ AskDelete(e) \/ AskGroup(e)
        \/ Commit(e)    \/ Refused(e)
        \/ Rebuild(e)   \/ WritePath(e) \/ Bump(e)
    \/ \E g \in Group : FindGroup(g)
    \/ Attach \/ Detach
    \/ \E l \in DraftLink : DirectEdit(l)

DraftSpec == DraftInit /\ [][DraftNext]_draftVars

-----------------------------------------------------------------------------
\* Whatever happened to the database since, what a commit writes is a topology
\* the validator accepts: the mutation that is persisted amounts to the candidate
\* that was validated, and a broken draft is never committed on top of.
CommitsAreValid ==
    (\E e \in Editor : Commit(e)) => ValidDraft(links', groups', groupPath')

\* No edit of links or groups takes the route group of an installed relay away.
GroupInUseStays ==
    relayGroup' = relayGroup /\ relayGroup \in groups => relayGroup \in groups'

\* The draft is never left worse than validation found it: no commit persists
\* what was not validated, and no writer strands the installed relay.
DraftStaysSound == [][CommitsAreValid /\ GroupInUseStays]_draftVars

\* What the maintenance promises: once no request is under way, the topology is
\* one that the next edit, and a deployment, can start from.
PathsHeal ==
    (\A e \in Editor : editor[e].pc = "idle") =>
        ValidDraft(links, groups, groupPath)
===============================================================================
