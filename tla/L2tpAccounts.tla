---------------------------- MODULE L2tpAccounts ----------------------------
(***************************************************************************)
(* The L2TP page: relays are installed and torn down, and one list of      *)
(* accounts is kept on all of them.  An account has a record per relay, an  *)
(* installation copies the records of the others, and what the worker does *)
(* later (L2tpOperation) only marks the relay installed.  One request runs  *)
(* at a time; each may fail after any of its writes.                       *)
(***************************************************************************)
EXTENDS Integers, Sequences, FiniteSets

CONSTANTS Relay, Login, Password,
          PoolSize,       \* addresses of a relay's pool
          Octet,          \* third octets of the automatic subnets
          FirstOctet,     \* per relay: where its hash starts the search
          ChainLink,
          ChainOf,        \* per relay: its links up to the bridge
          MaxCalls, MaxAccountFaults

ASSUME AccountsAssumption ==
    /\ PoolSize \in Nat \ {0} /\ Octet \subseteq Nat \ {0}
    /\ FirstOctet \in [Relay -> Octet]
    /\ {MaxCalls, MaxAccountFaults} \subseteq Nat
    /\ ChainOf \in [Relay -> Seq(ChainLink) \ {<<>>}]

VARIABLES
    relayState,  \* RelayL2tpState: status, desiredState, subnet, secretRevision, key
    rows,        \* L2tpUser: relay, login, address, password
    groupPaths,  \* the paths of the route group
    isRelay,     \* the nodes whose role is still relay
    installing,  \* install operations the worker has not finished
    unsure,      \* ghost: accounts a request has left half-way, or came too late for
    spent

accountVars == <<relayState, rows, groupPaths, isRelay, installing, unsure, spent>>

AccountsInit ==
    /\ relayState = [r \in Relay |-> [status |-> "none", desired |-> FALSE, octet |-> 0,
                                      rev |-> 0, key |-> 0]]
    /\ rows = {} /\ groupPaths = {}
    /\ isRelay = Relay
    /\ installing = {}
    /\ unsure = {}
    /\ spent = [calls |-> 0, faults |-> 0]

Of(r) == {row \in rows : row.relay = r}
Installed == {r \in Relay : relayState[r].status = "installed"}
UsedOctets == {relayState[r].octet : r \in Relay}

Call == spent.calls < MaxCalls /\ spent' = [spent EXCEPT !.calls = @ + 1]
CallFails == /\ spent.calls < MaxCalls /\ spent.faults < MaxAccountFaults
             /\ spent' = [calls |-> spent.calls + 1, faults |-> spent.faults + 1]

-----------------------------------------------------------------------------
(* Addresses and paths.                                                    *)

\* The relay's own subnet, that of the accounts it already has, or the first
\* free one from where its hash points.
SubnetOf(r) ==
    LET pinned == {row.octet : row \in Of(r)}
        free == Octet \ UsedOctets
        ahead == {o \in free : o >= FirstOctet[r]}
        first(S) == CHOOSE o \in S : \A x \in S : o <= x
    IN  IF relayState[r].octet # 0 THEN relayState[r].octet
        ELSE IF Cardinality(pinned) = 1 /\ pinned \subseteq free THEN first(pinned)
        ELSE IF ahead # {} THEN first(ahead) ELSE first(free)

\* A relay without a subnet finds none left.
NoSubnet(r) == relayState[r].octet = 0 /\ Octet \subseteq UsedOctets

FreeHosts(r) == (1..PoolSize) \ {row.host : row \in Of(r)}

\* The record of an account on a relay, at the lowest address free there.
Row(r, login, password) ==
    [relay |-> r, login |-> login, octet |-> SubnetOf(r), password |-> password,
     host |-> CHOOSE h \in FreeHosts(r) : \A x \in FreeHosts(r) : h <= x]

Covers(path, link) == \E i \in DOMAIN path : path[i] = link
Passes(r, s) == Covers(ChainOf[r], Head(ChainOf[s]))

\* A chain goes on from a relay as that relay's own does, and no two chains
\* join: of two that pass a relay one starts on the other.
ASSUME ChainsAssumption ==
    /\ \A r, s \in Relay : \A i \in DOMAIN ChainOf[r] :
          ChainOf[r][i] = Head(ChainOf[s]) =>
              ChainOf[s] = SubSeq(ChainOf[r], i, Len(ChainOf[r]))
    /\ \A r, s, t \in Relay :
          Passes(s, r) /\ Passes(t, r) => Passes(s, t) \/ Passes(t, s)

\* Bug: paths that the new one covers as well are kept.
PathsKeepingAll(r) ==
    LET covering == {p \in groupPaths : Covers(p, Head(ChainOf[r]))}
        best == CHOOSE p \in covering : \A x \in covering : Len(p) >= Len(x)
    IN  IF covering # {} THEN (groupPaths \ covering) \cup {best}
        ELSE groupPaths \cup {ChainOf[r]}

\* Of the paths that cover the relay the longest stays; without one its chain
\* is added, and what starts inside the chain goes.
PathsWith(r) ==
    LET covering == {p \in groupPaths : Covers(p, Head(ChainOf[r]))}
        best == CHOOSE p \in covering : \A x \in covering : Len(p) >= Len(x)
    IN  IF covering # {} THEN (groupPaths \ covering) \cup {best}
        ELSE {p \in groupPaths : ~Covers(Tail(ChainOf[r]), Head(p))} \cup {ChainOf[r]}

-----------------------------------------------------------------------------
(* installRelay, uninstallRelay and the end of an installation.            *)

\* A relay that is not to be installed yet, or no longer, is configured: with
\* its old subnet and key, if it has any.
Configured(r) ==
    IF relayState[r].desired THEN relayState
    ELSE [relayState EXCEPT ![r] =
            [status |-> IF @.status = "none" THEN "not_installed" ELSE @.status,
             desired |-> TRUE, octet |-> SubnetOf(r), rev |-> @.rev + 1,
             key |-> IF @.key = 0 THEN 1 ELSE @.key]]

\* Records to copy, with the password of any that exists.
Missing(r) == {row.login : row \in rows} \ {row.login : row \in Of(r)}
PasswordsOf(login) == {row.password : row \in {x \in rows : x.login = login}}

\* Records of some of them, each at a free address.
Inherited(r, logins, password) ==
    LET place == CHOOSE f \in [logins -> FreeHosts(r)] :
                    \A a, b \in logins : f[a] = f[b] => a = b
    IN  {[relay |-> r, login |-> l, octet |-> SubnetOf(r), host |-> place[l],
          password |-> password[l]] : l \in logins}

\* The records are copied one after the other, until the pool is full; then
\* the preflight or the plan may still refuse.
InstallRelay(r) ==
    /\ r \in isRelay
    /\ groupPaths' = PathsWith(r)
    /\ IF NoSubnet(r) THEN Call /\ UNCHANGED <<relayState, rows, installing>>
       ELSE /\ relayState' = Configured(r)
            /\ \E logins \in SUBSET Missing(r) :
                  /\ Cardinality(logins) <= Cardinality(FreeHosts(r))
                  /\ \E password \in {f \in [logins -> Password] :
                                        \A l \in logins : f[l] \in PasswordsOf(l)} :
                        rows' = rows \cup Inherited(r, logins, password)
                  /\ \/ /\ Call /\ logins = Missing(r)
                        /\ installing' = installing \cup {[relay |-> r, rev |-> relayState'[r].rev]}
                     \/ CallFails /\ UNCHANGED installing
    /\ UNCHANGED <<isRelay, unsure>>

\* A verified installation counts if nothing was configured since.
FinishInstall(op) ==
    /\ op \in installing
    /\ installing' = installing \ {op}
    /\ \/ /\ relayState[op.relay].desired /\ relayState[op.relay].rev = op.rev
          /\ relayState' = [relayState EXCEPT ![op.relay].status = "installed"]
       \/ UNCHANGED relayState
    /\ UNCHANGED <<rows, groupPaths, isRelay, unsure, spent>>

\* The records stay, and so do subnet and key.  The script either finished or
\* nothing is written.
UninstallRelay(r) ==
    /\ r \in Installed
    /\ Call
    /\ relayState' = [relayState EXCEPT ![r].status = "not_installed", ![r].desired = FALSE]
    /\ UNCHANGED <<rows, groupPaths, isRelay, installing, unsure>>

-----------------------------------------------------------------------------
(* createAccount and deleteAccount, relay by relay.                        *)

Bumped(nodes) == [r \in Relay |-> IF r \in nodes THEN [relayState[r] EXCEPT !.rev = @ + 1]
                                  ELSE relayState[r]]

\* Relays that have the account are skipped; a full pool, a node that is no
\* relay any more or a failed write ends the request where it is.
CreateAccount(login, password) ==
    LET wanted == {r \in Installed : \A row \in Of(r) : row.login # login}
        able == {r \in wanted : r \in isRelay /\ FreeHosts(r) # {}}
        on(nodes) == /\ rows' = rows \cup {Row(r, login, password) : r \in nodes}
                     /\ relayState' = Bumped(nodes)
    IN  /\ Installed # {}
        /\ \/ /\ Call /\ able = wanted
              /\ on(wanted)
              \* An installation under way has copied its records already.
              /\ unsure' = IF installing = {} THEN unsure ELSE unsure \cup {login}
           \/ /\ IF able = wanted THEN CallFails ELSE Call
              /\ \E nodes \in SUBSET able : nodes # wanted /\ on(nodes)
              /\ unsure' = unsure \cup {login}
        /\ UNCHANGED <<groupPaths, isRelay, installing>>

\* A record on a node that is no relay, or not installed, is just removed.
DeleteAccount(login) ==
    LET nodes == {row.relay : row \in {x \in rows : x.login = login}}
        from(some) == /\ rows' = {row \in rows : row.login # login \/ row.relay \notin some}
                      /\ relayState' = Bumped(some \cap Installed \cap isRelay)
    IN  /\ nodes # {}
        /\ \/ Call /\ from(nodes) /\ unsure' = unsure \ {login}
           \/ /\ CallFails
              /\ \E some \in SUBSET nodes : some # nodes /\ from(some)
              /\ unsure' = unsure \cup {login}
        /\ UNCHANGED <<groupPaths, isRelay, installing>>

\* A topology gives the node another role, or its own back.
ChangeRole(r) ==
    /\ CallFails
    /\ isRelay' = IF r \in isRelay THEN isRelay \ {r} ELSE isRelay \cup {r}
    /\ UNCHANGED <<relayState, rows, groupPaths, installing, unsure>>

AccountsNext ==
    \/ \E r \in Relay : InstallRelay(r) \/ UninstallRelay(r) \/ ChangeRole(r)
    \/ \E op \in installing : FinishInstall(op)
    \/ \E l \in Login : DeleteAccount(l) \/ \E p \in Password : CreateAccount(l, p)

AccountsSpec == AccountsInit /\ [][AccountsNext]_accountVars

-----------------------------------------------------------------------------
(* However relays were installed, torn down and installed again around the *)
(* accounts, an installed relay serves every account, with the one password *)
(* it has everywhere, at an address of its own in the relay's subnet, under *)
(* the key its clients were given, and one path of the group leads out of  *)
(* it; of accounts a request failed half-way for, or that were created     *)
(* while an installation was under way, only the addresses are promised.   *)
InstalledRelayServes ==
    \A r \in Installed :
       /\ \A row \in rows : row.login \notin unsure =>
             \E mine \in Of(r) : mine.login = row.login /\ mine.password = row.password
       /\ \A a, b \in Of(r) : /\ a.octet = relayState[r].octet
                              /\ (a.host = b.host \/ a.login = b.login) => a = b
       /\ relayState[r].key = 1
       /\ Cardinality({p \in groupPaths : Covers(p, Head(ChainOf[r]))}) = 1
=============================================================================
