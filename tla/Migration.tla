------------------------------ MODULE Migration -----------------------------
(***************************************************************************)
(* Installation and updates of the governance SCORE (governance.py).       *)
(*                                                                         *)
(* Releases before 1.1.0 kept the network's values in containers of the    *)
(* SCORE's own; 1.1.0 hands them over to the platform and empties the      *)
(* containers.  An update runs, in one transaction, every migration newer  *)
(* than the recorded version: db is the SCORE's storage, network what the  *)
(* platform holds, and each migration a function of the storage.           *)
(***************************************************************************)
EXTENDS Integers, Sequences, FiniteSets, SequencesExt

CONSTANTS
    Null,            \* a part of a version that is not a number
    INITIAL_COSTS,   \* step costs set by 0.0.2
    COSTS_V1,        \* step costs set by an installation
    ServiceFlags,    \* flags of the platform's service configuration
    Genesis,         \* network values the platform starts with
    Deployments,     \* pairs <<storage, network values>> found by an update
    Proposed         \* network values that proposals may lead to

VARIABLES
    db,       \* the SCORE's storage, or Nothing before the installation
    network   \* the platform's values, or Nothing if it holds none

vars == <<db, network>>

Nothing == <<>>

VERSION == <<1, 2, 0>>

CONTEXT_TYPE == {"invoke", "query"}

INITIAL_LIMITS == [invoke |-> 2500, query |-> 50]

\* What iconservice is given: every import is allowed.
OPEN_WHITE_LIST == [iconservice |-> <<"*">>]

\* Reading a key of a DictDB that was never set gives a default.
Read(dict, key, default) == IF key \in DOMAIN dict THEN dict[key] ELSE default

\* A DictDB to which entries are written, or deleted from.
Updated(dict, entries) ==
    [k \in DOMAIN dict \cup DOMAIN entries |->
        IF k \in DOMAIN entries THEN entries[k] ELSE dict[k]]

Without(dict, keys) == [k \in DOMAIN dict \ keys |-> dict[k]]

\* _versions: the parts of a version that are numbers, collected in order.
Versions(version) ==
    LET parts[n \in 0..Len(version)] ==
            IF n = 0 THEN <<>>
            ELSE IF version[n] = Null THEN parts[n - 1]
            ELSE Append(parts[n - 1], version[n])
    IN  parts[Len(version)]

\* Tuples compare by their first difference; a proper prefix is less.
IsLess(s, t) ==
    \E n \in 0..(Len(t) - 1) :
        /\ n <= Len(s)
        /\ SubSeq(s, 1, n) = SubSeq(t, 1, n)
        /\ n < Len(s) => s[n + 1] < t[n + 1]

IsLessThanTargetVersion(target) == IsLess(Versions(db.version), target)

-----------------------------------------------------------------------------
(* The migrations.                                                         *)

\* Mutant: a cost that is there is not set.
SetMissingStepCosts(s) ==
    LET missing == {t \in DOMAIN INITIAL_COSTS : t \notin DOMAIN s.stepCosts}
    IN  [s EXCEPT !.stepTypes = @ \o SetToSeq(missing),
                  !.stepCosts = Updated(INITIAL_COSTS, @)]

\* The initial costs are set, and their types listed, beside the others.
SetInitialStepCosts(s) ==
    LET missing == {t \in DOMAIN INITIAL_COSTS : t \notin DOMAIN s.stepCosts}
    IN  [s EXCEPT !.stepTypes = @ \o SetToSeq(missing),
                  !.stepCosts = Updated(@, INITIAL_COSTS)]

\* The first releases kept costs without the list of their types.
MigrateV002(s) ==
    LET known == SetToSeq(DOMAIN INITIAL_COSTS \cap DOMAIN s.stepCosts)
    IN  SetInitialStepCosts(
            IF s.stepTypes = <<>> THEN [s EXCEPT !.stepTypes = known] ELSE s)

\* The limits go to the container of the white list.
SetInitialMaxStepLimits(s) ==
    [s EXCEPT !.importWhiteList = Updated(@, INITIAL_LIMITS)]

\* Mutant: a white list that has been set is opened as well.
SetInitialImportWhiteListAlways(s) ==
    [s EXCEPT !.importWhiteList = Updated(@, OPEN_WHITE_LIST),
              !.importWhiteListKeys = Append(@, "iconservice")]

SetInitialImportWhiteList(s) ==
    IF "iconservice" \in DOMAIN s.importWhiteList THEN s
    ELSE [s EXCEPT !.importWhiteList = Updated(@, OPEN_WHITE_LIST),
                   !.importWhiteListKeys = Append(@, "iconservice")]

SetInitialServiceConfig(s) ==
    [s EXCEPT !.serviceConfig = ServiceFlags \cup {"SCORE_PACKAGE_VALIDATOR"}]

MigrateV003(s) ==
    SetInitialServiceConfig(
        SetInitialImportWhiteList(SetInitialMaxStepLimits(s)))

\* Revision 2; its name is left out.
SetInitialRevision(s) == [s EXCEPT !.revision = 2]

\* What _migrate_v1_1_0 hands to migrate_icon_network_value.
IconNetworkValues(s) ==
    [serviceConfig   |-> s.serviceConfig,
     stepPrice       |-> s.stepPrice,
     stepCosts       |-> [t \in ToSet(s.stepTypes) |-> s.stepCosts[t]],
     maxStepLimits   |-> [c \in CONTEXT_TYPE |-> Read(s.maxStepLimits, c, 0)],
     revision        |-> s.revision,
     importWhiteList |-> [k \in ToSet(s.importWhiteListKeys) |->
                             s.importWhiteList[k]],
     scoreBlackList  |-> s.scoreBlackList]

\* Mutant: the lists of keys are emptied before the values they name.
EmptiedKeysFirst(s) ==
    [s EXCEPT !.serviceConfig = {}, !.revision = 0, !.stepPrice = 0,
              !.maxStepLimits = Without(@, CONTEXT_TYPE),
              !.stepTypes = <<>>,
              !.importWhiteListKeys = <<>>,
              !.scoreBlackList = <<>>, !.deployerList = <<>>]

\* And what it then removes.
Emptied(s) ==
    [s EXCEPT !.serviceConfig = {}, !.revision = 0, !.stepPrice = 0,
              !.maxStepLimits = Without(@, CONTEXT_TYPE),
              !.stepCosts = Without(@, ToSet(s.stepTypes)),
              !.stepTypes = <<>>,
              !.importWhiteList = Without(@, ToSet(s.importWhiteListKeys)),
              !.importWhiteListKeys = <<>>,
              !.scoreBlackList = <<>>, !.deployerList = <<>>]

\* The containers as the migrations before 1.1.0 leave them; 0.0.4 and
\* 0.0.6 change nothing.
Migrated ==
    LET s2 == IF IsLessThanTargetVersion(<<0, 0, 2>>)
              THEN MigrateV002(db) ELSE db
        s3 == IF IsLessThanTargetVersion(<<0, 0, 3>>)
              THEN MigrateV003(s2) ELSE s2
    IN  IF IsLessThanTargetVersion(<<0, 0, 5>>) THEN SetInitialRevision(s3) ELSE s3

-----------------------------------------------------------------------------
NoStorage ==
    [version |-> <<>>, stepTypes |-> <<>>, stepCosts |-> <<>>,
     stepPrice |-> 0, maxStepLimits |-> <<>>, revision |-> 0,
     importWhiteList |-> <<>>, importWhiteListKeys |-> <<>>,
     scoreBlackList |-> <<>>, deployerList |-> <<>>, serviceConfig |-> {}]

\* What a release before 1.1.0 leaves: step costs whose types are listed, or
\* the unlisted costs of initial types of the first releases; limits by
\* context; and a white list by package, of names or of a star that comes
\* first, in the container that may hold the misplaced limits as well.
Legacy(s) ==
    /\ DOMAIN s = DOMAIN NoStorage
    /\ s.version \in Seq(Int \cup {Null})
    /\ s.stepTypes \in Seq(STRING)
    /\ s.stepCosts \in [DOMAIN s.stepCosts -> Int]
    /\ \/ DOMAIN s.stepCosts = ToSet(s.stepTypes)
       \/ /\ IsLess(Versions(s.version), <<0, 0, 2>>)
          /\ s.stepTypes = <<>>
          /\ DOMAIN s.stepCosts \subseteq DOMAIN INITIAL_COSTS
    /\ DOMAIN s.maxStepLimits \subseteq CONTEXT_TYPE
    /\ s.importWhiteListKeys \in Seq(STRING)
    /\ ToSet(s.importWhiteListKeys) \subseteq DOMAIN s.importWhiteList
    /\ DOMAIN s.importWhiteList
           \subseteq ToSet(s.importWhiteListKeys) \cup CONTEXT_TYPE
    /\ \A key \in ToSet(s.importWhiteListKeys) :
          LET names == s.importWhiteList[key]
          IN  /\ names \in Seq(STRING) \ {<<>>}
              /\ "*" \in ToSet(names) => names[1] = "*"

\* What is left in the storage from 1.1.0 on: the version, and the limits in
\* the container of the white list.
Retired(s) ==
    /\ DOMAIN s.importWhiteList \subseteq CONTEXT_TYPE
    /\ \A container \in DOMAIN NoStorage \ {"version", "importWhiteList"} :
          s[container] = NoStorage[container]

ASSUME MigrationAssumption ==
    /\ Null \notin Int
    /\ INITIAL_COSTS \in [DOMAIN INITIAL_COSTS -> Int]
    /\ IsFiniteSet(DOMAIN INITIAL_COSTS)
    /\ DOMAIN INITIAL_COSTS \subseteq STRING
    /\ DOMAIN Genesis # {}
    /\ \A d \in Deployments :
          IF IsLess(Versions(d[1].version), <<1, 1, 0>>)
          THEN Legacy(d[1]) /\ d[2] = Nothing
          ELSE /\ DOMAIN d[1] = DOMAIN NoStorage
               /\ d[1].version \in Seq(Int \cup {Null})
               /\ Retired(d[1])
               /\ DOMAIN d[2] # {}

\* A new chain, or one on which a release has run; one before 1.1.0 has its
\* values in its storage only.
Init ==
    \/ db = Nothing /\ network = Genesis
    \/ \E d \in Deployments : db = d[1] /\ network = d[2]

SetStepCostsV1 == network' = [network EXCEPT !.stepCosts = COSTS_V1]

\* Mutant: the version is not recorded.
OnInstallUnversioned ==
    /\ db = Nothing
    /\ db' = NoStorage
    /\ SetStepCostsV1

\* The auditors, the rest of what on_install sets, are in Audit.
OnInstall ==
    /\ db = Nothing
    /\ db' = [NoStorage EXCEPT !.version = VERSION]
    /\ SetStepCostsV1

OnUpdate ==
    /\ db # Nothing
    /\ IF IsLessThanTargetVersion(<<1, 1, 0>>)
       THEN /\ db' = [Emptied(Migrated) EXCEPT !.version = VERSION]
            /\ network' = IconNetworkValues(Migrated)
       ELSE /\ db' = [Migrated EXCEPT !.version = VERSION]
            /\ UNCHANGED network

\* Approved proposals change the values the platform holds.
ChangeNetwork ==
    /\ network # Nothing
    /\ \E values \in Proposed : network' = Updated(network, values)
    /\ UNCHANGED db

Next == OnInstall \/ OnUpdate \/ ChangeNetwork

Spec == Init /\ [][Next]_vars

-----------------------------------------------------------------------------
(* Queries.                                                                *)

\* getMaxStepLimit
MaxStepLimit(contextType) == network.maxStepLimits[contextType]

\* isInImportWhiteList: stmt is the parsed statement, by package the names
\* imported from it, none for all.
IsInImportWhiteList(stmt) ==
    \A key \in DOMAIN stmt :
        /\ key \in DOMAIN network.importWhiteList
        /\ LET old == network.importWhiteList[key]
           IN  \/ old[1] = "*"
               \/ stmt[key] # {} /\ stmt[key] \subseteq ToSet(old)

-----------------------------------------------------------------------------
(* Properties.                                                             *)

HandsOver == network = Nothing /\ network' # Nothing

Old(release) == IsLess(Versions(db.version), release)

\* Whichever release an update starts from, and however its containers
\* were laid out, the platform receives what that release had and, beside
\* it, exactly what the migrations of the releases in between add: no step
\* cost, price, frozen SCORE or revision is lost on the way.  The limits it
\* receives are those of a release from 0.0.3 on, and 0 for a context that
\* has none; what an earlier one should hand over is LimitsUpdated.
CarriedOver ==
    [][HandsOver =>
        /\ network'.stepCosts =
               IF Old(<<0, 0, 2>>)
               THEN Updated(db.stepCosts, INITIAL_COSTS)
               ELSE db.stepCosts
        /\ ~Old(<<0, 0, 3>>) =>
               network'.maxStepLimits =
                   [c \in CONTEXT_TYPE |-> Read(db.maxStepLimits, c, 0)]
        /\ network'.stepPrice = db.stepPrice
        /\ network'.revision = IF Old(<<0, 0, 5>>) THEN 2 ELSE db.revision
        /\ network'.scoreBlackList = db.scoreBlackList
        /\ network'.serviceConfig =
               IF Old(<<0, 0, 3>>)
               THEN ServiceFlags \cup {"SCORE_PACKAGE_VALIDATOR"}
               ELSE db.serviceConfig]_vars

\* The import statements of up to two packages that can be asked about.
Statements ==
    LET names == {{}, {"json"}, {"os"}, {"json", "os"}}
        packages == {{"iconservice"}, {"iconservice", "other"}}
    IN  UNION {[p -> names] : p \in packages}

\* The imports an old white list allows: by package, any of the names or
\* all of them if it has a star.
WasAllowed(stmt) ==
    \A key \in DOMAIN stmt :
        \/ /\ Old(<<0, 0, 3>>)
           /\ key = "iconservice"
           /\ key \notin DOMAIN db.importWhiteList
        \/ /\ key \in ToSet(db.importWhiteListKeys)
           /\ \/ "*" \in ToSet(db.importWhiteList[key])
              \/ /\ stmt[key] # {}
                 /\ \A name \in stmt[key] :
                       name \in ToSet(db.importWhiteList[key])

\* The migrations open no import that a white list refused, and close none
\* that it allowed: only iconservice is opened, by 0.0.3, where it was not
\* listed.
ImportsStayRestricted ==
    [][HandsOver =>
        \A stmt \in Statements :
            IsInImportWhiteList(stmt)' <=> WasAllowed(stmt)]_vars

\* Updating again, or updating what was installed anew, runs no migration a
\* second time: once the platform holds the values, an update leaves them.
UpdatesKeepNetwork == [][OnUpdate /\ network # Nothing => UNCHANGED network]_vars

\* Once the platform holds the values, every one of the old containers is
\* empty, the step costs, the white list and the lists that name their keys
\* among them; only the misplaced limits remain.
OldStorageRemoved ==
    network # Nothing /\ db # Nothing => Retired(db)

\* The documentation of the first migration says that it "updates the step
\* costs and max step limits": an update from before it leaves the initial
\* limits in force.
LimitsUpdated ==
    [][HandsOver /\ Old(<<0, 0, 2>>) =>
        \A c \in CONTEXT_TYPE : MaxStepLimit(c)' = INITIAL_LIMITS[c]]_vars
=============================================================================
