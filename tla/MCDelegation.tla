---------------------------- MODULE MCDelegation ----------------------------
(* Small instances of Delegation for TLC.                                  *)
EXTENDS Delegation, TLC

CONSTANTS r0, r1, r2, e1, k1, p1, tmp, h1, s1, o1

MCParentRun == (e1 :> r0) @@ (k1 :> r0)

Full == [paths |-> {p1}, mode |-> "allowlist", allow |-> {h1}, preset |-> "ask",
         secrets |-> {s1}, outputs |-> {o1}]

\* One manifest per way to be wider or narrower than Full on a guarded field.
MCManifests ==
  { Full,
    [Full EXCEPT !.mode = "deny", !.allow = {}],
    [Full EXCEPT !.preset = "custom", !.secrets = {}],
    [Full EXCEPT !.preset = "yolo", !.allow = {}, !.outputs = {}],
    [Full EXCEPT !.paths = {}, !.preset = "allowlist"] }
=============================================================================
