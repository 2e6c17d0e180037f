-------------------------- MODULE DelegationProofs --------------------------
(***************************************************************************)
(* For any runs, helpers and manifests, however deep the chain: the paths, *)
(* secrets and tool preset of a run stay within those of the run at its    *)
(* top, or of a placeholder on the way. Each step compares a child with    *)
(* its parent only, so the comparison has to be transitive, which on the   *)
(* hosts it is not. Then the handbacks, whose ids collide only between     *)
(* different objects.                                                      *)
(***************************************************************************)
EXTENDS Delegation, TLAPS

IsManifest(m) == m \in ManifestRecords

\* r keeps within the grants of q, which is the top of its chain or has a
\* placeholder.
BoundedBy(r, q) ==
  /\ q = root[r] \/ \E outs \in SUBSET Outputs : manifest[q] = Placeholder(outs)
  /\ manifest[q] # None /\ root[q] = root[r]
  /\ Within(manifest[r], manifest[q])

\* The root of r is a root itself, and something bounds the grants of r.
Rooted(r) ==
  /\ IsManifest(manifest[r])
  /\ root[r] \in Runs /\ manifest[root[r]] # None /\ root[root[r]] = root[r]
  /\ \E q \in Runs : BoundedBy(r, q)

GrantInv ==
  /\ DOMAIN manifest = Runs /\ DOMAIN root = Runs
  /\ \A r \in Runs : manifest[r] # None => Rooted(r)

-----------------------------------------------------------------------------

LEMMA WithinReflexive ==
  ASSUME NEW m, IsManifest(m) PROVE Within(m, m)
BY DEF Within, IsManifest, ManifestRecords, Level, Presets

LEMMA WithinTransitive ==
  ASSUME NEW l, NEW m, NEW n, IsManifest(l), IsManifest(m), IsManifest(n),
         Within(l, m), Within(m, n)
  PROVE  Within(l, n)
<1>1. \A preset \in Presets : Level(preset) \in Nat
  BY DEF Level, Presets
<1> QED BY <1>1 DEF Within, IsManifest, ManifestRecords

LEMMA DelegateIs ==
  ASSUME GrantInv, NEW c \in Runs, NEW p \in Runs, NEW m, Delegate(p, c, m)
  PROVE  /\ manifest[c] = None /\ manifest[p] # None /\ p # c
         /\ DOMAIN manifest' = Runs /\ DOMAIN root' = Runs
         /\ manifest'[c] = m /\ root'[c] = root[p]
         /\ \A r \in Runs : r # c => manifest'[r] = manifest[r] /\ root'[r] = root[r]
         /\ Rooted(p) /\ root[p] \in Runs \ {c}
         /\ \A r \in Runs : manifest[r] # None => r # c /\ root[r] # c
BY DEF GrantInv, Delegate, Rooted

\* A new run whose manifest is within that of its parent p keeps GrantInv, and
\* so does one that has a placeholder.
LEMMA DelegateKeeps ==
  ASSUME GrantInv, NEW c \in Runs, NEW p \in Runs, NEW m, IsManifest(m), Delegate(p, c, m),
         Within(m, manifest[p]) \/ \E outs \in SUBSET Outputs : m = Placeholder(outs)
  PROVE  GrantInv'
<1>1. /\ manifest[c] = None /\ manifest[p] # None /\ p # c
      /\ DOMAIN manifest' = Runs /\ DOMAIN root' = Runs
      /\ manifest'[c] = m /\ root'[c] = root[p]
      /\ \A r \in Runs : r # c => manifest'[r] = manifest[r] /\ root'[r] = root[r]
      /\ Rooted(p) /\ root[p] \in Runs \ {c}
      /\ \A r \in Runs : manifest[r] # None => r # c /\ root[r] # c
  BY DelegateIs
<1>2. m # None
  BY DelegationAssumption DEF IsManifest
<1>3. ASSUME NEW r \in Runs, NEW q \in Runs, manifest[r] # None, BoundedBy(r, q)
      PROVE  /\ q # c /\ manifest'[q] = manifest[q] /\ root'[q] = root[q]
             /\ manifest'[r] = manifest[r] /\ root'[r] = root[r]
  BY <1>1, <1>3 DEF BoundedBy
<1>4. \E q \in Runs : BoundedBy(c, q)'
  <2>1. CASE Within(m, manifest[p])
    <3>1. PICK q \in Runs : BoundedBy(p, q)
      BY <1>1 DEF Rooted
    <3>2. q # c /\ manifest'[q] = manifest[q] /\ root'[q] = root[q]
      BY <1>1, <1>3, <3>1
    <3>3. Rooted(q)
      BY <3>1 DEF BoundedBy, GrantInv
    <3>4. Within(m, manifest[q])
      BY <1>1, <2>1, <3>1, <3>3, WithinTransitive DEF BoundedBy, Rooted
    <3>5. Within(manifest[c]', manifest[q]')
      BY <1>1, <3>2, <3>4
    <3>6. /\ q = root[c]' \/ \E outs \in SUBSET Outputs : manifest[q]' = Placeholder(outs)
          /\ manifest[q]' # None /\ root[q]' = root[c]'
      BY <1>1, <3>1, <3>2 DEF BoundedBy
    <3>7. BoundedBy(c, q)'
      BY <3>5, <3>6 DEF BoundedBy, Within, Placeholder
    <3> QED BY <3>7
  <2>2. CASE \E outs \in SUBSET Outputs : m = Placeholder(outs)
    <3>1. Within(m, m)
      BY WithinReflexive
    <3>2. BoundedBy(c, c)'
      BY <1>1, <1>2, <2>2, <3>1 DEF BoundedBy, Within, Placeholder
    <3> QED BY <3>2
  <2> QED BY <2>1, <2>2
<1>5. ASSUME NEW r \in Runs, manifest'[r] # None
      PROVE  Rooted(r)'
  <2>1. CASE r = c
    <3>1. manifest[root[p]] # None /\ root[root[p]] = root[p]
      BY <1>1 DEF Rooted
    <3> QED BY <1>1, <1>4, <2>1, <3>1 DEF Rooted
  <2>2. CASE r # c
    <3>1. manifest[r] # None /\ Rooted(r) /\ root[r] # c
      BY <1>1, <1>5, <2>2 DEF GrantInv
    <3>2. PICK q \in Runs : BoundedBy(r, q)
      BY <3>1 DEF Rooted
    <3>3. BoundedBy(r, q)'
      BY <1>3, <3>1, <3>2 DEF BoundedBy, Within, Placeholder
    <3> QED BY <1>1, <2>2, <3>1, <3>3 DEF Rooted
  <2> QED BY <2>1, <2>2
<1> QED BY <1>1, <1>5 DEF GrantInv

-----------------------------------------------------------------------------

LEMMA InitGrantInv == Init => GrantInv
<1> SUFFICES ASSUME Init PROVE GrantInv
  OBVIOUS
<1>1. PICK m \in Manifests : manifest = [r \in Runs |-> IF r = Root THEN m ELSE None]
  BY DEF Init
<1>2. root = [r \in Runs |-> IF r = Root THEN Root ELSE None] /\ Root \in Runs
  BY DelegationAssumption DEF Init
<1>3. IsManifest(m) /\ Within(m, m)
  BY DelegationAssumption, WithinReflexive DEF IsManifest
<1>4. ASSUME NEW r \in Runs, manifest[r] # None
      PROVE  Rooted(r)
  <2>1. r = Root /\ manifest[r] = m /\ root[r] = r
    BY <1>1, <1>2, <1>4
  <2>2. BoundedBy(r, r)
    BY <1>3, <1>4, <2>1 DEF BoundedBy
  <2> QED BY <1>3, <1>4, <2>1, <2>2 DEF Rooted
<1> QED BY <1>1, <1>2, <1>4 DEF GrantInv

\* What a manifest is narrowed to passes the validation of the code.
LEMMA NarrowsWithin ==
  ASSUME NEW parent, NEW child, Narrows(parent, child)
  PROVE  Within(child, parent)
BY DEF Narrows, Within

\* The ways to give the child c a manifest.
Delegates(c) ==
  \/ \E h \in Helpers, outs \in SUBSET Outputs :
       ResolveChildManifest(h, c, outs) \/ CreateEnvelope(h, c, outs)
  \/ \E p \in Runs, outs \in SUBSET Outputs : Package(p, c, outs)
  \/ \E p \in Runs, m \in Manifests : AcceptChild(p, c, m)

LEMMA DelegatingSteps ==
  ASSUME GrantInv, NEW c \in Runs, Delegates(c)
  PROVE  GrantInv'
<1>1. ASSUME NEW p \in Runs, Delegate(p, c, manifest[p])
      PROVE  GrantInv'
  <2>1. IsManifest(manifest[p])
    BY <1>1 DEF GrantInv, Rooted, Delegate
  <2> QED BY <1>1, <2>1, WithinReflexive, DelegateKeeps
<1>2. ASSUME NEW h \in Helpers, NEW outs \in SUBSET Outputs, ResolveChildManifest(h, c, outs)
      PROVE  GrantInv'
  <2>1. ParentRun[h] \in Runs
    BY DelegationAssumption
  <2>2. CASE Delegate(ParentRun[h], c, Placeholder(outs))
    <3>1. IsManifest(Placeholder(outs))
      BY DEF IsManifest, ManifestRecords, Placeholder, Presets, Modes
    <3> QED BY <2>1, <2>2, <3>1, DelegateKeeps
  <2>3. CASE Delegate(ParentRun[h], c, manifest[ParentRun[h]])
    BY <1>1, <2>1, <2>3
  <2> QED BY <1>2, <2>2, <2>3 DEF ResolveChildManifest
<1>3. ASSUME NEW h \in Helpers, NEW outs \in SUBSET Outputs, CreateEnvelope(h, c, outs)
      PROVE  GrantInv'
  <2>1. ParentRun[h] \in Runs
    BY DelegationAssumption
  <2> QED BY <1>1, <1>3, <2>1 DEF CreateEnvelope
<1>4. ASSUME NEW p \in Runs, NEW outs \in SUBSET Outputs, Package(p, c, outs)
      PROVE  GrantInv'
  <2> DEFINE child == DispatcherChild(manifest[p], outs)
  <2>1. IsManifest(manifest[p])
    BY <1>4 DEF Package, GrantInv, Rooted, Delegate
  <2>2. IsManifest(child)
    BY <2>1 DEF DispatcherChild, IsManifest, ManifestRecords
  <2>3. Within(child, manifest[p]) /\ Delegate(p, c, child)
    BY <1>4, NarrowsWithin DEF Package
  <2> QED BY <2>2, <2>3, DelegateKeeps
<1>5. ASSUME NEW p \in Runs, NEW m \in Manifests, AcceptChild(p, c, m)
      PROVE  GrantInv'
  <2>1. IsManifest(m)
    BY DelegationAssumption DEF IsManifest
  <2> QED BY <1>5, <2>1, NarrowsWithin, DelegateKeeps DEF AcceptChild
<1> QED BY <1>2, <1>3, <1>4, <1>5 DEF Delegates

\* A step that gives nobody a manifest.
LEMMA OtherSteps ==
  ASSUME GrantInv, UNCHANGED runVars
  PROVE  GrantInv'
<1>1. manifest' = manifest /\ root' = root
  BY DEF runVars
<1>2. \A r, q : BoundedBy(r, q) => BoundedBy(r, q)'
  BY <1>1 DEF BoundedBy, Within, Placeholder
<1>3. \A r : Rooted(r) => Rooted(r)'
  BY <1>1, <1>2 DEF Rooted
<1> QED BY <1>1, <1>3 DEF GrantInv

LEMMA NextGrantInv == GrantInv /\ [Next]_vars => GrantInv'
<1> SUFFICES ASSUME GrantInv, [Next]_vars
             PROVE  GrantInv'
  OBVIOUS
<1> USE DEF helperVars, runVars, backVars
<1>2. ASSUME UNCHANGED runVars
      PROVE  GrantInv'
  BY <1>2, OtherSteps
<1>3. ASSUME NEW h \in EAHelpers, SetParentManifest(h)
      PROVE  GrantInv'
  BY <1>2, <1>3 DEF SetParentManifest
<1>4. ASSUME NEW h \in Helpers, Restart(h)
      PROVE  GrantInv'
  BY <1>2, <1>4 DEF Restart
<1>5. CASE UNCHANGED vars
  BY <1>2, <1>5 DEF vars
<1>6. CASE \E h \in EAHelpers :
             \/ BuildContext(h) \/ RecordHandback(h)
             \/ \E checkpoint \in Checkpoints : RecordHandbackAsync(h, checkpoint)
  BY <1>2, <1>6 DEF BuildContext, RecordHandback, RecordHandbackAsync
<1>7. CASE \E h \in CodingHelpers, checkpoint \in Checkpoints : RecordCheckpoint(h, checkpoint)
  BY <1>2, <1>7 DEF RecordCheckpoint
<1>8. CASE \E k \in calls : NumberCheckpoint(k) \/ ComputeNextSeq(k) \/ AppendHandback(k) \/ AppendRaises(k)
  BY <1>2, <1>8 DEF NumberCheckpoint, ComputeNextSeq, AppendHandback, AppendRaises
<1>9. CASE \E c \in Runs : Delegates(c)
  BY <1>9, DelegatingSteps
<1>10. Next => \/ \E h \in EAHelpers : SetParentManifest(h)
               \/ \E h \in Helpers : Restart(h)
               \/ \E h \in EAHelpers :
                    \/ BuildContext(h) \/ RecordHandback(h)
                    \/ \E checkpoint \in Checkpoints : RecordHandbackAsync(h, checkpoint)
               \/ \E h \in CodingHelpers, checkpoint \in Checkpoints :
                    RecordCheckpoint(h, checkpoint)
               \/ \E k \in calls : NumberCheckpoint(k) \/ ComputeNextSeq(k) \/ AppendHandback(k) \/ AppendRaises(k)
               \/ \E c \in Runs : Delegates(c)
  BY DEF Next, Delegates, Helpers, MakeEnvelope, MakeEnvelopeManual
<1> QED BY <1>3, <1>4, <1>5, <1>6, <1>7, <1>8, <1>9, <1>10

(***************************************************************************)
(* However deep the chain and whoever narrows, no run holds a writable     *)
(* path, a secret or a wider tool preset than the run at the top of its    *)
(* chain, or than a placeholder that an EA helper handed out below it.     *)
(***************************************************************************)
THEOREM GrantsBoundedHolds == Spec => []GrantsBounded
<1>2. GrantInv => GrantsBounded
  <2> SUFFICES ASSUME GrantInv, NEW r \in Runs, manifest[r] # None
               PROVE  \/ Within(manifest[r], manifest[root[r]])
                      \/ \E q \in Runs, outs \in SUBSET Outputs :
                           /\ manifest[q] = Placeholder(outs) /\ root[q] = root[r]
                           /\ Within(manifest[r], manifest[q])
    BY DEF GrantsBounded
  <2> QED BY DEF GrantInv, Rooted, BoundedBy
<1> QED BY <1>2, InitGrantInv, NextGrantInv, PTL DEF Spec

-----------------------------------------------------------------------------
(* Hosts                                                                   *)

\* A new run below p's top.
LEMMA DelegateKeepsHosts ==
  ASSUME GrantInv, AllowlistsKeepHosts, NEW c \in Runs, NEW p \in Runs, NEW m,
         Delegate(p, c, m), manifest[p].mode = "allowlist" => m.allow \subseteq manifest[p].allow
  PROVE  AllowlistsKeepHosts'
<1>1. /\ manifest[c] = None /\ manifest[p] # None
      /\ manifest'[c] = m /\ root'[c] = root[p]
      /\ \A r \in Runs : r # c => manifest'[r] = manifest[r] /\ root'[r] = root[r]
      /\ \A r \in Runs : manifest[r] # None => r # c /\ root[r] # c
  BY DelegateIs
<1> DEFINE Below(top) == {r \in Runs : manifest[r] # None /\ root[r] = top}
           BelowNow(top) == {r \in Runs : manifest'[r] # None /\ root'[r] = top}
<1>2. SUFFICES ASSUME NEW top \in Runs, NEW r \in BelowNow(top),
                      \A q \in BelowNow(top) : manifest'[q].mode = "allowlist"
               PROVE  manifest'[r].allow \subseteq manifest'[top].allow
  BY DEF AllowlistsKeepHosts
<1>3. \A q \in Below(top) :
        /\ q \in BelowNow(top) /\ manifest'[q] = manifest[q]
  BY <1>1
<1>4. \A q \in Below(top) : manifest[q].mode = "allowlist"
  BY <1>2, <1>3
<1>5. \A q \in Below(top) : manifest[q].allow \subseteq manifest[top].allow
  BY <1>4 DEF AllowlistsKeepHosts
<1>6. CASE r # c
  <2>1. r \in Below(top) /\ manifest'[r] = manifest[r]
    BY <1>1, <1>2, <1>6
  <2>2. top # c /\ manifest'[top] = manifest[top]
    BY <1>1, <2>1
  <2> QED BY <1>5, <2>1, <2>2
<1>7. CASE r = c
  <2>1. top = root[p] /\ p \in Below(top)
    BY <1>1, <1>2, <1>7
  <2>2. m.allow \subseteq manifest[top].allow
    BY <1>4, <1>5, <2>1
  <2>3. manifest'[top] = manifest[top]
    BY <1>1, <2>1
  <2> QED BY <1>1, <1>7, <2>2, <2>3
<1> QED BY <1>6, <1>7

LEMMA NextKeepsHosts ==
  ASSUME GrantInv, AllowlistsKeepHosts, [Next]_vars
  PROVE  AllowlistsKeepHosts'
<1>1. CASE UNCHANGED runVars
  BY <1>1 DEF AllowlistsKeepHosts, runVars
<1>2. ASSUME NEW c \in Runs, NEW p \in Runs, Delegate(p, c, manifest[p])
      PROVE  AllowlistsKeepHosts'
  BY <1>2, DelegateKeepsHosts
<1>3. ASSUME NEW h \in Helpers, NEW c \in Runs, NEW outs \in SUBSET Outputs,
             ResolveChildManifest(h, c, outs)
      PROVE  AllowlistsKeepHosts'
  <2>1. ParentRun[h] \in Runs
    BY DelegationAssumption
  <2>2. CASE Delegate(ParentRun[h], c, Placeholder(outs))
    <3>1. Placeholder(outs).allow = {}
      BY DEF Placeholder
    <3> QED BY <2>1, <2>2, <3>1, DelegateKeepsHosts
  <2>3. CASE Delegate(ParentRun[h], c, manifest[ParentRun[h]])
    BY <1>2, <2>1, <2>3
  <2> QED BY <1>3, <2>2, <2>3 DEF ResolveChildManifest
<1>4. ASSUME NEW h \in Helpers, NEW c \in Runs, NEW outs \in SUBSET Outputs,
             CreateEnvelope(h, c, outs)
      PROVE  AllowlistsKeepHosts'
  <2>1. ParentRun[h] \in Runs
    BY DelegationAssumption
  <2> QED BY <1>2, <1>4, <2>1 DEF CreateEnvelope
<1>5. ASSUME NEW p \in Runs, NEW c \in Runs, NEW outs \in SUBSET Outputs, Package(p, c, outs)
      PROVE  AllowlistsKeepHosts'
  <2> DEFINE child == DispatcherChild(manifest[p], outs)
  <2>1. IsManifest(manifest[p])
    BY <1>5 DEF Package, GrantInv, Rooted, Delegate
  <2>2. child.allow = manifest[p].allow
    BY <2>1 DEF DispatcherChild, IsManifest, ManifestRecords
  <2>3. Delegate(p, c, child)
    BY <1>5 DEF Package
  <2> QED BY <2>2, <2>3, DelegateKeepsHosts
<1>6. ASSUME NEW p \in Runs, NEW c \in Runs, NEW m \in Manifests, AcceptChild(p, c, m)
      PROVE  AllowlistsKeepHosts'
  BY <1>6, DelegateKeepsHosts DEF AcceptChild, Narrows
<1> USE DEF helperVars, backVars, runVars
<1>7. ASSUME NEW h \in Helpers,
             \/ BuildContext(h) \/ SetParentManifest(h) \/ RecordHandback(h) \/ Restart(h)
             \/ \E checkpoint \in Checkpoints :
                  RecordHandbackAsync(h, checkpoint) \/ RecordCheckpoint(h, checkpoint)
      PROVE  UNCHANGED runVars
  BY <1>7 DEF BuildContext, SetParentManifest, RecordHandback, Restart,
              RecordHandbackAsync, RecordCheckpoint
<1>8. CASE \E k \in calls : NumberCheckpoint(k) \/ ComputeNextSeq(k) \/ AppendHandback(k) \/ AppendRaises(k)
  BY <1>1, <1>8 DEF NumberCheckpoint, ComputeNextSeq, AppendHandback, AppendRaises
<1>9. CASE UNCHANGED vars
  BY <1>1, <1>9 DEF vars
<1> QED BY <1>1, <1>3, <1>4, <1>5, <1>6, <1>7, <1>8, <1>9
        DEF Next, Helpers, MakeEnvelope, MakeEnvelopeManual

(***************************************************************************)
(* Below a run, as long as all modes are allowlist, no run can reach a     *)
(* host that the run at the top cannot.                                    *)
(***************************************************************************)
THEOREM AllowlistsKeepHostsHolds == Spec => []AllowlistsKeepHosts
<1>1. Init => GrantInv /\ AllowlistsKeepHosts
  BY InitGrantInv, DelegationAssumption DEF Init, AllowlistsKeepHosts
<1> QED BY <1>1, NextGrantInv, NextKeepsHosts, PTL DEF Spec

-----------------------------------------------------------------------------
(* Handbacks                                                               *)

\* The record that a handback came from: no two of an object are the same.
Place(k) == <<k.by, k.life, k.pos>>

IsCall(k) ==
  /\ k \in [by : Helpers, life : Nat, pos : Nat \ {0}, checkpoint : Checkpoints, number : Nat,
         seq : Nat]
  /\ k.by \notin CodingHelpers => k.number = k.pos

\* The handbacks of the present life of a helper come from its records, those
\* that are stored and those in flight from different ones.
HandbackInv ==
  /\ life \in [Helpers -> Nat] /\ records \in [Helpers -> Nat]
  /\ \A k \in calls :
       /\ IsCall(k) /\ k.life = life[k.by] /\ k.pos <= records[k.by]
       /\ \A l \in calls : Place(k) = Place(l) => k = l
       /\ \A e \in log : Place(e.of) # Place(k)
  /\ \A e \in log :
       /\ IsCall(e.of) /\ e.id = EventId(e.of) /\ e.seq \in Nat
       /\ e.of.life <= life[e.of.by]
       /\ e.of.life = life[e.of.by] => e.of.pos <= records[e.of.by]

LEMMA CallsOfNewRecord ==
  ASSUME HandbackInv, NEW h \in Helpers, NEW k, IsCall(k), k.by = h, k.life = life[h],
         k.pos = records[h] + 1, records' = [records EXCEPT ![h] = @ + 1],
         calls' = calls \cup {k}, life' = life, log' = log
  PROVE  HandbackInv'
<1>1. /\ records' \in [Helpers -> Nat] /\ records'[h] = records[h] + 1
      /\ \A g \in Helpers : records'[g] >= records[g]
  BY DEF HandbackInv
<1>2. \A l \in calls : Place(l) # Place(k)
  BY <1>1 DEF HandbackInv, Place, IsCall
<1>3. \A e \in log : Place(e.of) # Place(k)
  BY <1>1 DEF HandbackInv, Place, IsCall
<1>4. ASSUME NEW l \in calls'
      PROVE  /\ IsCall(l) /\ l.life = life'[l.by] /\ l.pos <= records'[l.by]
             /\ \A m \in calls' : Place(l) = Place(m) => l = m
             /\ \A e \in log' : Place(e.of) # Place(l)
  <2>1. IsCall(l) /\ l.life = life'[l.by] /\ l.pos <= records'[l.by]
    BY <1>1, <1>4 DEF HandbackInv, IsCall
  <2>2. \A m \in calls' : Place(l) = Place(m) => l = m
    BY <1>2, <1>4 DEF HandbackInv
  <2>3. \A e \in log' : Place(e.of) # Place(l)
    BY <1>3, <1>4 DEF HandbackInv
  <2> QED BY <2>1, <2>2, <2>3
<1>5. \A e \in log : /\ IsCall(e.of) /\ e.id = EventId(e.of) /\ e.seq \in Nat
                     /\ e.of.life <= life[e.of.by]
                     /\ e.of.life = life[e.of.by] => e.of.pos <= records'[e.of.by]
  BY <1>1 DEF HandbackInv, IsCall
<1> QED BY <1>1, <1>4, <1>5 DEF HandbackInv

\* A call that takes its number or its seq stays the same handback.
LEMMA CallContinues ==
  ASSUME HandbackInv, NEW k \in calls, NEW new, IsCall(new), Place(new) = Place(k),
         new.by = k.by, new.life = k.life, new.pos = k.pos,
         calls' = (calls \ {k}) \cup {new}, life' = life, records' = records, log' = log
  PROVE  HandbackInv'
<1>1. Place(new) = Place(k) /\ \A l \in calls : Place(l) = Place(k) => l = k
  BY DEF HandbackInv
<1>2. k.life = life[k.by] /\ k.pos <= records[k.by] /\ \A e \in log : Place(e.of) # Place(k)
  BY DEF HandbackInv
<1>3. ASSUME NEW l \in calls'
      PROVE  /\ IsCall(l) /\ l.life = life'[l.by] /\ l.pos <= records'[l.by]
             /\ \A m \in calls' : Place(l) = Place(m) => l = m
             /\ \A e \in log' : Place(e.of) # Place(l)
  <2>1. CASE l = new
    BY <1>1, <1>2, <2>1
  <2>2. CASE l \in calls \ {k}
    BY <1>1, <2>2 DEF HandbackInv
  <2> QED BY <1>3, <2>1, <2>2
<1> QED BY <1>3 DEF HandbackInv

LEMMA NumberedCall ==
  ASSUME HandbackInv, NEW k \in calls, NumberCheckpoint(k)
  PROVE  HandbackInv'
<1> DEFINE new == [k EXCEPT !.number = records[k.by]]
<1>1. /\ k.number = 0 /\ calls' = (calls \ {k}) \cup {new}
      /\ life' = life /\ records' = records /\ log' = log
  BY DEF NumberCheckpoint, helperVars
<1>2. IsCall(k) /\ k.by \in CodingHelpers
  BY <1>1 DEF HandbackInv, IsCall
<1>3. IsCall(new) /\ new.by = k.by /\ new.life = k.life /\ new.pos = k.pos
  BY <1>2 DEF HandbackInv, IsCall
<1>4. Place(new) = Place(k)
  BY <1>3 DEF Place
<1> HIDE DEF new
<1> QED BY <1>1, <1>3, <1>4, CallContinues

LEMMA SequencedCall ==
  ASSUME HandbackInv, NEW k \in calls, ComputeNextSeq(k)
  PROVE  HandbackInv'
<1>1. PICK max \in {0} \cup {e.seq : e \in OfRun(ParentRun[k.by])} :
        calls' = (calls \ {k}) \cup {[k EXCEPT !.seq = max + 1]}
  BY DEF ComputeNextSeq
<1>2. max \in Nat
  BY DEF HandbackInv, OfRun
<1> DEFINE new == [k EXCEPT !.seq = max + 1]
<1>3. IsCall(k) /\ life' = life /\ records' = records /\ log' = log
  BY DEF HandbackInv, ComputeNextSeq, helperVars
<1>4. IsCall(new) /\ new.by = k.by /\ new.life = k.life /\ new.pos = k.pos
  BY <1>2, <1>3 DEF IsCall
<1>5. Place(new) = Place(k)
  BY <1>4 DEF Place
<1>6. calls' = (calls \ {k}) \cup {new}
  BY <1>1
<1> HIDE DEF new
<1> QED BY <1>3, <1>4, <1>5, <1>6, CallContinues

LEMMA StoredHandback ==
  ASSUME HandbackInv, NEW k \in calls, AppendHandback(k)
  PROVE  HandbackInv'
<1>1. /\ calls' = calls \ {k} /\ life' = life /\ records' = records
      /\ log' = log \/ log' = log \cup {[id |-> EventId(k), seq |-> k.seq, of |-> k]}
  BY DEF AppendHandback, helperVars
<1>2. /\ IsCall(k) /\ k.life = life[k.by] /\ k.pos <= records[k.by]
      /\ \A l \in calls : Place(l) = Place(k) => l = k
  BY DEF HandbackInv
<1>3. \A e \in log' : \/ e \in log
                      \/ e.id = EventId(k) /\ e.of = k /\ e.seq = k.seq
  BY <1>1
<1>4. k.life \in Nat /\ k.life <= life[k.by] /\ k.seq \in Nat
  BY <1>2 DEF IsCall
<1>5. \A l \in calls' : \A e \in log' : Place(e.of) # Place(l)
  BY <1>1, <1>2, <1>3 DEF HandbackInv
<1>6. \A e \in log' : /\ IsCall(e.of) /\ e.id = EventId(e.of) /\ e.seq \in Nat
                      /\ e.of.life <= life[e.of.by]
                      /\ e.of.life = life[e.of.by] => e.of.pos <= records[e.of.by]
  BY <1>2, <1>3, <1>4 DEF HandbackInv
<1> QED BY <1>1, <1>5, <1>6 DEF HandbackInv

LEMMA RestartedHelper ==
  ASSUME HandbackInv, NEW h \in Helpers, Restart(h)
  PROVE  HandbackInv'
<1>1. /\ life' = [life EXCEPT ![h] = @ + 1] /\ records' = [records EXCEPT ![h] = 0]
      /\ calls' = {k \in calls : k.by # h} /\ log' = log
  BY DEF Restart
<1>2. /\ life' \in [Helpers -> Nat] /\ records' \in [Helpers -> Nat]
      /\ life'[h] = life[h] + 1
      /\ \A g \in Helpers : g # h => life'[g] = life[g] /\ records'[g] = records[g]
  BY <1>1 DEF HandbackInv
<1>3. ASSUME NEW k \in calls'
      PROVE  /\ IsCall(k) /\ k.life = life'[k.by] /\ k.pos <= records'[k.by]
             /\ \A l \in calls' : Place(k) = Place(l) => k = l
             /\ \A e \in log' : Place(e.of) # Place(k)
  <2>1. k \in calls /\ k.by # h /\ k.by \in Helpers
    BY <1>1 DEF HandbackInv, IsCall
  <2> QED BY <1>1, <1>2, <2>1 DEF HandbackInv
<1>4. ASSUME NEW e \in log'
      PROVE  /\ IsCall(e.of) /\ e.id = EventId(e.of) /\ e.seq \in Nat
             /\ e.of.life <= life'[e.of.by]
             /\ e.of.life = life'[e.of.by] => e.of.pos <= records'[e.of.by]
  <2>1. IsCall(e.of) /\ e.of.by \in Helpers /\ e.of.life \in Nat
    BY <1>1 DEF HandbackInv, IsCall
  <2>2. CASE e.of.by = h
    <3>1. e.of.life <= life[h] /\ life[h] \in Nat
      BY <1>1, <2>1, <2>2 DEF HandbackInv
    <3> QED BY <1>1, <1>2, <2>1, <2>2, <3>1 DEF HandbackInv
  <2>3. CASE e.of.by # h
    BY <1>1, <1>2, <2>1, <2>3 DEF HandbackInv
  <2> QED BY <2>2, <2>3
<1> QED BY <1>2, <1>3, <1>4 DEF HandbackInv

\* Two handbacks of one EA helper object with the same id are the same record.
LEMMA RefusedByOther ==
  ASSUME HandbackInv, RefusalsExplained, NEW k \in calls, AppendHandback(k)
  PROVE  RefusalsExplained'
<1>1. \A e \in log : e \in log'
  BY DEF AppendHandback
<1>2. \A l : (SameSeq(l) # {} => SameSeq(l)' # {}) /\ \A e \in SameId(l) : e \in SameId(l)'
  BY <1>1 DEF SameSeq, SameId, OfRun, EventId
<1>3. CASE refused' = refused
  BY <1>2, <1>3 DEF RefusalsExplained
<1>4. ASSUME SameId(k) \cup SameSeq(k) # {}, refused' = refused \cup {k}
      PROVE  RefusalsExplained'
  <2>1. CASE SameSeq(k) # {}
    BY <1>2, <1>4, <2>1 DEF RefusalsExplained
  <2>2. ASSUME NEW e \in SameId(k)
        PROVE  RefusalsExplained'
    <3>1. IsCall(k) /\ IsCall(e.of) /\ EventId(e.of) = EventId(k) /\ Place(e.of) # Place(k)
      BY <2>2 DEF HandbackInv, SameId
    <3>2. e.of.number = k.number
      BY <3>1 DEF EventId
    <3>3. \/ e.of.by # k.by \/ e.of.life # k.life \/ e.of.pos # k.pos
      BY <3>1 DEF Place
    <3>4. \/ e.of.by # k.by \/ e.of.life # k.life
          \/ k.by \in CodingHelpers /\ e.of.pos # k.pos
      BY <3>1, <3>2, <3>3 DEF IsCall
    <3> QED BY <1>2, <1>4, <3>4 DEF RefusalsExplained
  <2> QED BY <1>4, <2>1, <2>2
<1> QED BY <1>3, <1>4 DEF AppendHandback

\* Where neither the log nor the refusals change.
LEMMA RefusalsKept ==
  ASSUME RefusalsExplained, UNCHANGED <<log, refused>>
  PROVE  RefusalsExplained'
BY DEF RefusalsExplained, SameSeq, SameId, OfRun, EventId

LEMMA HandbacksKept ==
  ASSUME HandbackInv, calls' \subseteq calls, UNCHANGED <<life, log>>,
         \/ records' = records
         \/ \E h \in Helpers : records' = [records EXCEPT ![h] = @ + 1]
  PROVE  HandbackInv'
<1>1. /\ records' \in [Helpers -> Nat]
      /\ \A g \in Helpers : records'[g] >= records[g]
  BY DEF HandbackInv
<1>2. ASSUME NEW k \in calls'
      PROVE  /\ IsCall(k) /\ k.life = life'[k.by] /\ k.pos <= records'[k.by]
             /\ \A l \in calls' : Place(k) = Place(l) => k = l
             /\ \A e \in log' : Place(e.of) # Place(k)
  BY <1>1 DEF HandbackInv, IsCall
<1>3. ASSUME NEW e \in log'
      PROVE  /\ IsCall(e.of) /\ e.id = EventId(e.of) /\ e.seq \in Nat
             /\ e.of.life <= life'[e.of.by]
             /\ e.of.life = life'[e.of.by] => e.of.pos <= records'[e.of.by]
  BY <1>1 DEF HandbackInv, IsCall
<1> QED BY <1>1, <1>2, <1>3 DEF HandbackInv

-----------------------------------------------------------------------------

LEMMA NextHandbackInv ==
  ASSUME HandbackInv, RefusalsExplained, [Next]_vars
  PROVE  HandbackInv' /\ RefusalsExplained'
<1> USE DEF helperVars, runVars, backVars
<1>1. ASSUME UNCHANGED backVars, life' = life
      PROVE  HandbackInv' /\ RefusalsExplained'
  BY <1>1, HandbacksKept, RefusalsKept
<1>2. ASSUME NEW h \in Helpers, NEW checkpoint \in Checkpoints, NEW number \in Nat,
             number = records[h] + 1 \/ h \in CodingHelpers,
             records' = [records EXCEPT ![h] = @ + 1],
             calls' = calls \cup {Call(h, checkpoint, number)}, UNCHANGED <<life, log, refused>>
      PROVE  HandbackInv' /\ RefusalsExplained'
  <2> DEFINE k == Call(h, checkpoint, number)
  <2>1. IsCall(k) /\ k.by = h /\ k.life = life[h] /\ k.pos = records[h] + 1
    BY <1>2 DEF Call, IsCall, HandbackInv
  <2> HIDE DEF k
  <2> QED BY <1>2, <2>1, CallsOfNewRecord, RefusalsKept DEF k
<1>3. CASE UNCHANGED vars
  BY <1>1, <1>3 DEF vars
<1>4. ASSUME NEW c \in Runs, Delegates(c)
      PROVE  HandbackInv' /\ RefusalsExplained'
  BY <1>1, <1>4 DEF Delegates, ResolveChildManifest, CreateEnvelope, Package, AcceptChild
<1>5. ASSUME NEW h \in EAHelpers, BuildContext(h) \/ SetParentManifest(h)
      PROVE  HandbackInv' /\ RefusalsExplained'
  BY <1>1, <1>5 DEF BuildContext, SetParentManifest
<1>6. ASSUME NEW h \in EAHelpers, RecordHandback(h)
      PROVE  HandbackInv' /\ RefusalsExplained'
  BY <1>6, HandbacksKept, RefusalsKept DEF RecordHandback, Helpers
<1>7. ASSUME NEW h \in EAHelpers, NEW checkpoint \in Checkpoints,
             RecordHandbackAsync(h, checkpoint)
      PROVE  HandbackInv' /\ RefusalsExplained'
  <2>1. h \in Helpers /\ records[h] + 1 \in Nat
    BY DEF HandbackInv, Helpers
  <2> QED BY <1>2, <1>7, <2>1 DEF RecordHandbackAsync
<1>8. ASSUME NEW h \in CodingHelpers, NEW checkpoint \in Checkpoints,
             RecordCheckpoint(h, checkpoint)
      PROVE  HandbackInv' /\ RefusalsExplained'
  <2>1. h \in Helpers
    BY DEF Helpers
  <2> QED BY <1>2, <1>8, <2>1 DEF RecordCheckpoint
<1>9. ASSUME NEW k \in calls, NumberCheckpoint(k)
      PROVE  HandbackInv' /\ RefusalsExplained'
  BY <1>9, NumberedCall, RefusalsKept DEF NumberCheckpoint
<1>10. ASSUME NEW k \in calls, AppendHandback(k)
       PROVE  HandbackInv' /\ RefusalsExplained'
  BY <1>10, StoredHandback, RefusedByOther
<1>11. ASSUME NEW k \in calls, AppendRaises(k)
       PROVE  HandbackInv' /\ RefusalsExplained'
  BY <1>11, HandbacksKept, RefusalsKept DEF AppendRaises
<1>12. ASSUME NEW h \in Helpers, Restart(h)
       PROVE  HandbackInv' /\ RefusalsExplained'
  BY <1>12, RestartedHelper, RefusalsKept DEF Restart
<1>13. ASSUME NEW k \in calls, ComputeNextSeq(k)
       PROVE  HandbackInv' /\ RefusalsExplained'
  BY <1>13, SequencedCall, RefusalsKept DEF ComputeNextSeq
<1> QED BY <1>3, <1>4, <1>5, <1>6, <1>7, <1>8, <1>9, <1>10, <1>11, <1>12, <1>13
        DEF Next, Delegates, Helpers, MakeEnvelope, MakeEnvelopeManual

(***************************************************************************)
(* A handback event is refused because an overlapping append took its seq, *)
(* or for its id, and that only by a handback of another helper object, of *)
(* a former process, or, in the coding routine, of another checkpoint.     *)
(***************************************************************************)
THEOREM RefusalsExplainedHolds == Spec => []RefusalsExplained
<1>1. Init => HandbackInv /\ RefusalsExplained
  BY DEF Init, HandbackInv, RefusalsExplained
<1> QED BY <1>1, NextHandbackInv, PTL DEF Spec

-----------------------------------------------------------------------------
(* The types                                                               *)

\* What the invariants above do not say of the types.
Bounded ==
  /\ \A r \in Runs : manifest[r] = None => root[r] = None
  /\ context \in [Helpers -> BOOLEAN] /\ attached \in [Helpers -> BOOLEAN]
  /\ life \in [Helpers -> 1..MaxLives]
  /\ records \in [Helpers -> 0..MaxRecords]
  /\ \A k \in calls : k.number \in 0..MaxRecords

\* A delegation leaves the child with a manifest.
LEMMA ChildHasManifest ==
  ASSUME GrantInv, NEW c \in Runs, Delegates(c)
  PROVE  \E p, m : m # None /\ Delegate(p, c, m)
<1>1. ASSUME NEW h \in Helpers, NEW outs \in SUBSET Outputs, ResolveChildManifest(h, c, outs)
      PROVE  \E p, m : m # None /\ Delegate(p, c, m)
  <2>1. CASE attached[h]
    BY <1>1, <2>1 DEF ResolveChildManifest, Delegate
  <2>2. CASE ~attached[h]
    <3>1. Placeholder(outs) \in ManifestRecords
      BY DEF ManifestRecords, Placeholder, Presets, Modes
    <3>2. Delegate(ParentRun[h], c, Placeholder(outs))
      BY <1>1, <2>2 DEF ResolveChildManifest
    <3> QED BY <3>1, <3>2, DelegationAssumption
  <2> QED BY <2>1, <2>2
<1>2. ASSUME NEW p \in Runs, NEW outs \in SUBSET Outputs, Package(p, c, outs)
      PROVE  \E q, m : m # None /\ Delegate(q, c, m)
  <2> DEFINE child == DispatcherChild(manifest[p], outs)
  <2>1. manifest[p] \in ManifestRecords
    BY <1>2 DEF Package, GrantInv, Rooted, IsManifest, Delegate
  <2>2. child \in ManifestRecords
    BY <2>1 DEF DispatcherChild, ManifestRecords
  <2>3. Delegate(p, c, child)
    BY <1>2 DEF Package
  <2> QED BY <2>2, <2>3, DelegationAssumption
<1>3. ASSUME NEW p \in Runs, NEW m \in Manifests, AcceptChild(p, c, m)
      PROVE  \E q, n : n # None /\ Delegate(q, c, n)
  <2>1. m # None
    BY DelegationAssumption
  <2> QED BY <1>3, <2>1 DEF AcceptChild
<1>4. ASSUME NEW h \in Helpers, NEW outs \in SUBSET Outputs, CreateEnvelope(h, c, outs)
      PROVE  \E p, m : m # None /\ Delegate(p, c, m)
  BY <1>4 DEF CreateEnvelope, Delegate
<1> QED BY <1>1, <1>2, <1>3, <1>4 DEF Delegates

LEMMA NextBounded ==
  ASSUME GrantInv, HandbackInv, Bounded, [Next]_vars
  PROVE  Bounded'
<1> USE DEF helperVars, backVars, runVars
<1>1. CASE UNCHANGED vars
  BY <1>1 DEF vars, Bounded
<1>2. ASSUME NEW c \in Runs, Delegates(c) PROVE Bounded'
  <2>1. PICK p, m : m # None /\ Delegate(p, c, m)
    BY <1>2, ChildHasManifest
  <2>2. \A r \in Runs : manifest'[r] = None => root'[r] = None
    BY <2>1 DEF Delegate, Bounded, GrantInv
  <2>3. UNCHANGED <<helperVars, backVars>>
    BY <1>2 DEF Delegates, ResolveChildManifest, CreateEnvelope, Package, AcceptChild
  <2> QED BY <2>2, <2>3 DEF Bounded
<1>3. ASSUME NEW h \in Helpers, BuildContext(h) \/ SetParentManifest(h) PROVE Bounded'
  BY <1>3 DEF BuildContext, SetParentManifest, Bounded
<1>4. ASSUME NEW h \in Helpers, RecordHandback(h) PROVE Bounded'
  BY <1>4, DelegationAssumption DEF RecordHandback, Bounded
<1>5. ASSUME NEW h \in Helpers, NEW checkpoint \in Checkpoints,
             RecordHandbackAsync(h, checkpoint) \/ RecordCheckpoint(h, checkpoint)
      PROVE  Bounded'
  <2>1. PICK number \in {0, records[h] + 1} : calls' = calls \cup {Call(h, checkpoint, number)}
    BY <1>5 DEF RecordHandbackAsync, RecordCheckpoint
  <2>2. records[h] \in 0..MaxRecords /\ records[h] < MaxRecords
        /\ records' = [records EXCEPT ![h] = @ + 1]
    BY <1>5 DEF RecordHandbackAsync, RecordCheckpoint, Bounded
  <2>3. Call(h, checkpoint, number).number \in 0..MaxRecords
    BY <2>2, DelegationAssumption DEF Call
  <2>4. UNCHANGED <<runVars, context, attached, life>>
    BY <1>5 DEF RecordHandbackAsync, RecordCheckpoint
  <2>5. records' \in [Helpers -> 0..MaxRecords]
    BY <2>2, DelegationAssumption DEF Bounded
  <2> QED BY <2>1, <2>3, <2>4, <2>5 DEF Bounded
<1>6. ASSUME NEW k \in calls, NumberCheckpoint(k) PROVE Bounded'
  <2> DEFINE new == [k EXCEPT !.number = records[k.by]]
  <2>1. calls' = (calls \ {k}) \cup {new} /\ UNCHANGED <<runVars, helperVars, records>>
    BY <1>6 DEF NumberCheckpoint
  <2>2. IsCall(k)
    BY DEF HandbackInv
  <2>3. new.number \in 0..MaxRecords
    BY <2>2 DEF IsCall, Bounded
  <2> HIDE DEF new
  <2> QED BY <2>1, <2>3 DEF Bounded
<1>7. ASSUME NEW k \in calls, AppendHandback(k) \/ AppendRaises(k) PROVE Bounded'
  BY <1>7 DEF AppendHandback, AppendRaises, Bounded
<1>9. ASSUME NEW k \in calls, ComputeNextSeq(k) PROVE Bounded'
  <2>1. PICK max : calls' = (calls \ {k}) \cup {[k EXCEPT !.seq = max]}
    BY <1>9 DEF ComputeNextSeq
  <2>2. [k EXCEPT !.seq = max].number = k.number
    BY DEF HandbackInv, IsCall
  <2>3. UNCHANGED <<runVars, helperVars, records>>
    BY <1>9 DEF ComputeNextSeq
  <2> QED BY <2>1, <2>2, <2>3 DEF Bounded
<1>8. ASSUME NEW h \in Helpers, Restart(h) PROVE Bounded'
  <2>1. /\ life[h] \in 1..MaxLives /\ life[h] < MaxLives
        /\ life' = [life EXCEPT ![h] = @ + 1] /\ records' = [records EXCEPT ![h] = 0]
        /\ context' = [context EXCEPT ![h] = FALSE] /\ attached' = [attached EXCEPT ![h] = FALSE]
        /\ calls' \subseteq calls /\ UNCHANGED runVars
    BY <1>8 DEF Restart, Bounded
  <2> QED BY <2>1, DelegationAssumption DEF Bounded
<1> QED BY <1>1, <1>2, <1>3, <1>4, <1>5, <1>6, <1>7, <1>8, <1>9
        DEF Next, Delegates, Helpers, MakeEnvelope, MakeEnvelopeManual

(***************************************************************************)
(* A run has a root just if it has a manifest, and that is one of the      *)
(* fields of prepared manifests; a handback under way comes from a record  *)
(* of the present life of its helper.                                      *)
(***************************************************************************)
THEOREM TypeOKHolds == Spec => []TypeOK
<1>1. Init => GrantInv /\ HandbackInv /\ Bounded /\ RefusalsExplained
  <2> SUFFICES ASSUME Init PROVE GrantInv /\ HandbackInv /\ Bounded /\ RefusalsExplained
    OBVIOUS
  <2>1. HandbackInv /\ RefusalsExplained
    BY DEF Init, HandbackInv, RefusalsExplained
  <2>2. \A r \in Runs : manifest[r] = None => root[r] = None
    BY DelegationAssumption DEF Init
  <2>3. Bounded
    BY <2>2, DelegationAssumption DEF Init, Bounded
  <2> QED BY <2>1, <2>3, InitGrantInv
<1>2. GrantInv /\ HandbackInv /\ Bounded => TypeOK
  <2> SUFFICES ASSUME GrantInv, HandbackInv, Bounded PROVE TypeOK
    OBVIOUS
  <2>1. ASSUME NEW r \in Runs
        PROVE  /\ manifest[r] \in ManifestRecords \cup {None}
               /\ root[r] \in Runs \cup {None}
               /\ manifest[r] = None <=> root[r] = None
    BY DelegationAssumption DEF GrantInv, Rooted, IsManifest, Bounded
  <2>2. \A k \in calls : k.by \in Helpers /\ k.pos \in 1..records[k.by] /\ k.seq \in Nat
    BY DEF HandbackInv, IsCall
  <2> QED BY <2>1, <2>2 DEF TypeOK, GrantInv, Bounded
<1> QED BY <1>1, <1>2, NextGrantInv, NextHandbackInv, NextBounded, PTL DEF Spec
=============================================================================
