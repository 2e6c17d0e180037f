---------------------------- MODULE MCEARoutines ----------------------------
(* Small instances of EARoutines for TLC.                                  *)
EXTENDS EARoutines, TLC

MCAssets ==
  << [id |-> "ea-scheduler", kind |-> "routine", mentions |-> {"scheduler"}],
     [id |-> "ea-inbox-triage", kind |-> "routine", mentions |-> {"triage"}],
     [id |-> "ea-briefing", kind |-> "routine", mentions |-> {"briefing"}],
     [id |-> "ea-triage-team", kind |-> "team", mentions |-> {"triage"}],
     [id |-> "ea-other", kind |-> "routine", mentions |-> {}] >>

Requested(asset, items, decisions) ==
  [asset |-> asset, items |-> items, decisions |-> decisions]

\* A title that reads like a position, a decision by position, a missing one,
\* a subject that is blank, an asset that is not a routine.
MCRequests ==
  { Requested("ea-scheduler", <<"a", "b">>, ("a" :> "granted") @@ ("2" :> "denied_alternate")),
    Requested("ea-scheduler", <<"2", "b">>, "2" :> "granted"),
    Requested("ea-scheduler", <<"a">>, [k \in {} |-> None]),
    Requested("ea-inbox-triage", <<"", "a">>, "a" :> "denied_abandon"),
    Requested("ea-inbox-triage", <<"a">>, "a" :> "granted"),
    Requested("ea-briefing", <<>>, [k \in {} |-> None]),
    Requested("ea-triage-team", <<"a">>, [k \in {} |-> None]),
    Requested("ea-other", <<"a">>, [k \in {} |-> None]) }
=============================================================================
