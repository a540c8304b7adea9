----------------------------- MODULE MCMigration ----------------------------
(***************************************************************************)
(* Small instances of Migration for TLC.                                   *)
(***************************************************************************)
EXTENDS Migration, TLC

MCInitialCosts == [get |-> 0, set |-> 320]

MCCostsV1 == [get |-> 25, set |-> 320, log |-> 100]

MCGenesis ==
    [serviceConfig |-> {}, stepPrice |-> 10, stepCosts |-> MCInitialCosts,
     maxStepLimits |-> INITIAL_LIMITS, revision |-> 5,
     importWhiteList |-> [iconservice |-> <<"*">>], scoreBlackList |-> <<>>]

MCProposed == {[stepPrice |-> 11], [stepCosts |-> [get |-> 30]],
               [scoreBlackList |-> <<"score">>]}

\* Releases without a version, with one, and with one that is not all
\* numbers; 1.0 is a proper prefix.
MCReleases == {<<>>, <<0, 0, 1>>, <<0, 0, 2>>, <<0, 0, 3>>, <<0, 0, 4, Null>>,
               <<0, 0, 5>>, <<0, 0, 10>>, <<1, 0>>}

MCEarlyCosts == {[get |-> 1], [get |-> 1, set |-> 2]}

\* Step costs and the list of their types: without a list only before
\* 0.0.2, and with all initial types from then on.
MCCosts(release) ==
    IF IsLess(release, <<0, 0, 2>>)
    THEN {<<<<>>, <<>>>>}
         \cup {<<<<>>, costs>> : costs \in MCEarlyCosts}
         \cup {<<SetToSeq(DOMAIN costs), costs>> : costs \in MCEarlyCosts}
    ELSE {<<<<"set", "get">>, [get |-> 1, set |-> 2]>>,
          <<<<"get", "set", "log">>, [get |-> 0, set |-> 320, log |-> 7]>>}

\* Where the white list has a package, it is listed; 0.0.3 has misplaced
\* the limits.
MCWhiteLists(release) ==
    LET lists == {[iconservice |-> <<"json">>],
                  [iconservice |-> <<"*">>, other |-> <<"json", "os">>],
                  [other |-> <<"os">>]}
    IN  IF IsLess(release, <<0, 0, 3>>)
        THEN {<<<<>>, <<>>>>} \cup {<<SetToSeq(DOMAIN w), w>> : w \in lists}
        ELSE {<<SetToSeq(DOMAIN w), INITIAL_LIMITS @@ w>> : w \in lists}

MCLimits == {<<>>, [invoke |-> 7], [invoke |-> 7, query |-> 8]}

MCOld ==
    UNION {{<<[NoStorage EXCEPT
                  !.version = release,
                  !.stepTypes = costs[1], !.stepCosts = costs[2],
                  !.stepPrice = 10, !.maxStepLimits = limits,
                  !.revision = IF IsLess(release, <<0, 0, 5>>) THEN 0 ELSE 3,
                  !.importWhiteListKeys = white[1],
                  !.importWhiteList = white[2],
                  !.scoreBlackList = <<"score">>,
                  !.deployerList = <<"deployer">>,
                  !.serviceConfig =
                      IF IsLess(release, <<0, 0, 3>>) THEN {}
                      ELSE {"FEE", "SCORE_PACKAGE_VALIDATOR"}],
               Nothing>> :
              costs \in MCCosts(Versions(release)),
              white \in MCWhiteLists(Versions(release)),
              limits \in MCLimits} : release \in MCReleases}

\* The releases that keep nothing in their storage.
MCNew == {<<[NoStorage EXCEPT !.version = release], MCGenesis>> :
             release \in {<<1, 1, 0>>, <<1, 1, 9>>, <<1, 2, 0>>}}

MCDeployments == MCOld \cup MCNew
=============================================================================
