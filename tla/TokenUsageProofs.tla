-------------------------- MODULE TokenUsageProofs --------------------------
(***************************************************************************)
(* For any sets of runs, sessions and providers: the usage rows of a run   *)
(* are numbered 1 to n, one row for each number.                           *)
(***************************************************************************)
EXTENDS TokenUsage, FiniteSetTheorems, TLAPS

Models == {Providers[name] : name \in DOMAIN Providers}

Rows == [run : Runs, seq : Nat, model : Models, tokens : Tokens, call : Sessions \X Nat]

Replies == [call : Sessions \X Nat, run : Runs, model : Models, tokens : Tokens]

Writing == {"max", "lock", "insert"}

Transactions ==
  [at : {"idle", "model", "failed"} \cup Writing, run : Runs \cup {None},
   model : Models \cup {None}, reply : Replies \cup {None}, base : Nat,
   locks : SUBSET Runs, rows : SUBSET Rows, replies : SUBSET Replies, calls : Nat]

Types ==
  /\ token_usage \subseteq Rows
  /\ replied \subseteq Replies
  /\ tx \in [Sessions -> Transactions]
  /\ \A s \in Sessions :
       /\ tx[s].at = "model" => tx[s].model \in Models
       /\ tx[s].at \in Writing =>
            tx[s].run \in Runs /\ tx[s].model \in Models /\ tx[s].reply \in Replies

\* The rows of one run: numbered 1 to n, one row for each number.
Seqs(rows, r) == {row.seq : row \in OfRun(rows, r)}

Dense(rows, r) ==
  /\ \E n \in Nat : Seqs(rows, r) = 1..n
  /\ \A a, b \in OfRun(rows, r) : a.seq = b.seq => a = b

CommittedDense == \A r \in Runs : Dense(token_usage, r)

\* So is what each session sees, its own rows included.
VisibleDense == \A s \in Sessions, r \in Runs : Dense(Visible(s), r)

\* No two sessions hold uncommitted rows of one run.
OneWriter ==
  \A s, t \in Sessions : s # t =>
    \A a \in tx[s].rows, b \in tx[t].rows : a.run # b.run

\* The maximum that was read is the seq of a row that is still visible.
BaseIsVisible ==
  \A s \in Sessions : tx[s].at \in {"lock", "insert"} =>
    tx[s].base = 0 \/ tx[s].base \in Seqs(Visible(s), tx[s].run)

\* A row is committed or uncommitted, not both.
PendingIsNew == \A s \in Sessions : tx[s].rows \cap token_usage = {}

\* The inductive invariant.
IInv ==
  /\ Types
  /\ CommittedDense
  /\ VisibleDense
  /\ OneWriter
  /\ BaseIsVisible
  /\ PendingIsNew

-----------------------------------------------------------------------------
(* Sets of rows                                                            *)

\* The next seq is one more than what is there.
LEMMA MaxOfInterval ==
  ASSUME NEW n \in Nat
  PROVE  Max({0} \cup 1..n) = n
<1>1. n \in {0} \cup 1..n /\ \A y \in {0} \cup 1..n : n >= y
  OBVIOUS
<1>2. \A x \in {0} \cup 1..n : (\A y \in {0} \cup 1..n : x >= y) => x = n
  <2> SUFFICES ASSUME NEW x \in {0} \cup 1..n, \A y \in {0} \cup 1..n : x >= y
               PROVE  x = n
    OBVIOUS
  <2>1. x >= n
    BY <1>1
  <2> QED BY <2>1
<1> QED BY <1>1, <1>2 DEF Max

\* Dense rows are as many as their seqs say.
LEMMA DenseCount ==
  ASSUME NEW rows, NEW n \in Nat,
         {row.seq : row \in rows} = 1..n,
         \A a, b \in rows : a.seq = b.seq => a = b
  PROVE  Cardinality(rows) = n
<1> DEFINE f == [k \in 1..n |-> CHOOSE row \in rows : row.seq = k]
<1>1. \A k \in 1..n : f[k] \in rows /\ f[k].seq = k
  <2> TAKE k \in 1..n
  <2>1. \E row \in rows : row.seq = k
    OBVIOUS
  <2> QED BY <2>1
<1>2. \A row \in rows : row.seq \in 1..n /\ f[row.seq] = row
  <2> TAKE row \in rows
  <2>1. row.seq \in 1..n
    OBVIOUS
  <2> HIDE DEF f
  <2> QED BY <1>1, <2>1
<1>3. f \in [1..n -> rows]
  BY <1>1
<1> HIDE DEF f
<1>4. f \in Injection(1..n, rows)
  BY <1>1, <1>3 DEF Injection, IsInjective
<1>5. f \in Surjection(1..n, rows)
  BY <1>2, <1>3 DEF Surjection
<1>6. ExistsBijection(1..n, rows)
  BY <1>4, <1>5 DEF ExistsBijection, Bijection
<1> QED BY <1>6, FS_CountingElements

\* A row of the next seq.
LEMMA DenseAdd ==
  ASSUME NEW rows, NEW r, Dense(rows, r), NEW new, new.run = r,
         new.seq = 1 \/ new.seq - 1 \in Seqs(rows, r), new.seq \in Nat,
         new.seq \notin Seqs(rows, r)
  PROVE  Dense(rows \cup {new}, r)
<1>1. OfRun(rows \cup {new}, r) = OfRun(rows, r) \cup {new}
  BY DEF OfRun
<1>2. PICK n \in Nat : Seqs(rows, r) = 1..n
  BY DEF Dense
<1>3. new.seq = n + 1
  BY <1>2
<1>4. Seqs(rows \cup {new}, r) = Seqs(rows, r) \cup {new.seq}
  BY <1>1 DEF Seqs
<1>5. Seqs(rows \cup {new}, r) = 1..(n + 1)
  <2>1. 1..(n + 1) = (1..n) \cup {n + 1}
    OBVIOUS
  <2> QED BY <1>2, <1>3, <1>4, <2>1
<1>6. \A a, b \in OfRun(rows \cup {new}, r) : a.seq = b.seq => a = b
  BY <1>1 DEF Dense, Seqs
<1>7. n + 1 \in Nat
  OBVIOUS
<1> QED BY <1>5, <1>6, <1>7 DEF Dense

\* Rows of other runs do not matter.
LEMMA DenseSame ==
  ASSUME NEW rows, NEW others, NEW r, OfRun(rows, r) = OfRun(others, r), Dense(rows, r)
  PROVE  Dense(others, r)
BY DEF Dense, Seqs

-----------------------------------------------------------------------------
(* The steps                                                               *)

\* Only the transaction of s changes.
Only(s) == \A t \in Sessions \ {s} : tx'[t] = tx[t]

\* What the read of the maximum finds.
LEMMA BaseRead ==
  ASSUME IInv, NEW s \in Sessions, tx[s].at = "max"
  PROVE  LET base == Max({0} \cup Seqs(Visible(s), tx[s].run)) IN
         base \in Nat /\ (base = 0 \/ base \in Seqs(Visible(s), tx[s].run))
<1>1. tx[s].run \in Runs
  BY DEF IInv, Types, Writing
<1>2. PICK n \in Nat : Seqs(Visible(s), tx[s].run) = 1..n
  BY <1>1 DEF IInv, VisibleDense, Dense
<1>3. Max({0} \cup Seqs(Visible(s), tx[s].run)) = n
  BY <1>2, MaxOfInterval
<1>4. n = 0 \/ n \in 1..n
  OBVIOUS
<1> QED BY <1>2, <1>3, <1>4

LEMMA ForgetFacts ==
  ASSUME Types, NEW s \in Sessions
  PROVE  /\ Forget(s) \in Transactions
         /\ Forget(s).at = "idle" /\ Forget(s).rows = tx[s].rows
         /\ Forget(s).replies = tx[s].replies /\ Forget(s).calls = tx[s].calls
BY DEF Forget, Types, Transactions

\* The steps that leave the rows alone, and what they do to the rest.
Quiet(s) ==
  \/ \E name \in DOMAIN Providers \cup {None}, r \in Runs \cup {None} : Complete(s, name, r)
  \/ \E tokens \in Tokens : Answer(s, tokens)
  \/ ProviderRaises(s)
  \/ ComputeNextSeq(s) \/ LockRows(s) \/ InsertRefused(s)

\* The transaction of s is a legal one.
Legal(t) ==
  /\ t \in Transactions
  /\ t.at = "model" => t.model \in Models
  /\ t.at \in Writing => t.run \in Runs /\ t.model \in Models /\ t.reply \in Replies

\* What a quiet step of s leaves behind.
QuietResult(s) ==
  /\ token_usage' = token_usage /\ replied' = replied
  /\ tx' = [tx EXCEPT ![s] = tx'[s]]
  /\ Legal(tx'[s]) /\ tx'[s].rows = tx[s].rows
  /\ tx'[s].at \in {"lock", "insert"} =>
       /\ tx'[s].run = tx[s].run
       /\ tx'[s].base = 0 \/ tx'[s].base \in Seqs(Visible(s), tx[s].run)

LEMMA QuietSteps ==
  ASSUME IInv, NEW s \in Sessions, Quiet(s)
  PROVE  QuietResult(s)
<1> USE DEF QuietResult
<1>1. /\ Types /\ tx \in [Sessions -> Transactions] /\ tx[s] \in Transactions
      /\ Legal(tx[s])
  BY DEF IInv, Types, Legal
<1>2. ASSUME NEW name \in DOMAIN Providers \cup {None}, NEW r \in Runs \cup {None},
             Complete(s, name, r)
      PROVE  QuietResult(s)
  <2> DEFINE model == Providers[IF name = None THEN Default ELSE name]
             new == [tx[s] EXCEPT !.at = "model", !.run = r, !.model = model, !.calls = @ + 1]
  <2>1. tx' = [tx EXCEPT ![s] = new] /\ model \in Models
    BY <1>2, <1>1 DEF Complete, Models
  <2> HIDE DEF model
  <2>2. new \in Transactions
    <3>1. /\ "model" \in {"idle", "model", "failed"} \cup Writing /\ tx[s].calls + 1 \in Nat
          /\ r \in Runs \cup {None} /\ model \in Models \cup {None}
      BY <1>1, <2>1 DEF Transactions
    <3> QED BY <1>1, <3>1 DEF Transactions
  <2>4. new.at = "model" /\ new.model = model /\ new.rows = tx[s].rows
    BY <1>1 DEF Transactions
  <2>3. tx'[s] = new
    BY <1>1, <2>1
  <2> HIDE DEF new
  <2> QED BY <1>1, <1>2, <2>1, <2>2, <2>3, <2>4 DEF Complete, Legal, Writing
<1>3. ASSUME NEW tokens \in Tokens, Answer(s, tokens)
      PROVE  QuietResult(s)
  <2> DEFINE reply == [call |-> <<s, tx[s].calls>>, run |-> tx[s].run,
                       model |-> tx[s].model, tokens |-> tokens]
             new == IF tx[s].run = None THEN Forget(s)
                    ELSE [tx[s] EXCEPT !.at = "max", !.reply = reply]
  <2>1. tx' = [tx EXCEPT ![s] = new] /\ tx'[s] = new
    BY <1>1, <1>3 DEF Answer
  <2>2. CASE tx[s].run = None
    BY <1>1, <1>3, <2>1, <2>2, ForgetFacts DEF Answer, Legal, Writing
  <2>3. CASE tx[s].run # None
    <3>1. tx[s].run \in Runs /\ tx[s].model \in Models /\ tx[s].calls \in Nat
      BY <1>1, <1>3, <2>3 DEF Answer, Legal, Transactions
    <3>2. reply \in Replies
      BY <3>1 DEF Replies
    <3> HIDE DEF reply
    <3>3. /\ new \in Transactions /\ new.at = "max" /\ new.rows = tx[s].rows
          /\ new.run \in Runs /\ new.model \in Models /\ new.reply \in Replies
      BY <1>1, <2>3, <3>1, <3>2 DEF Transactions, Writing
    <3> HIDE DEF new
    <3> QED BY <1>3, <2>1, <3>3 DEF Answer, Legal
  <2> QED BY <2>2, <2>3
<1>4. CASE ProviderRaises(s)
  BY <1>1, <1>4, ForgetFacts DEF ProviderRaises, Legal, Writing
<1>5. CASE ComputeNextSeq(s)
  <2> DEFINE base == Max({0} \cup Seqs(Visible(s), tx[s].run))
             new == [tx[s] EXCEPT !.base = base, !.at = "lock"]
  <2>1. base \in Nat /\ (base = 0 \/ base \in Seqs(Visible(s), tx[s].run))
    BY <1>5, BaseRead DEF ComputeNextSeq
  <2>2. tx' = [tx EXCEPT ![s] = new]
    BY <1>1, <1>5 DEF ComputeNextSeq, Seqs
  <2> HIDE DEF base
  <2>3. /\ new \in Transactions /\ new.at = "lock" /\ new.base = base /\ new.run = tx[s].run
        /\ new.run \in Runs /\ new.model \in Models /\ new.reply \in Replies /\ new.rows = tx[s].rows
    BY <1>1, <1>5, <2>1 DEF Transactions, Writing, ComputeNextSeq, Legal
  <2>4. tx'[s] = new
    BY <1>1, <2>2
  <2> HIDE DEF new
  <2> QED BY <1>5, <2>1, <2>2, <2>3, <2>4 DEF ComputeNextSeq, Legal
<1>6. CASE LockRows(s)
  <2> DEFINE held == IF OfRun(token_usage, tx[s].run) # {} /\ tx[s].base > 0
                     THEN {tx[s].run} ELSE {}
             new == [tx[s] EXCEPT !.locks = @ \cup held, !.at = "insert"]
  <2>1. tx' = [tx EXCEPT ![s] = new]
    BY <1>1, <1>6 DEF LockRows
  <2>2. held \subseteq Runs
    BY <1>1, <1>6 DEF LockRows, Legal, Writing
  <2> HIDE DEF held
  <2>3. /\ new \in Transactions /\ new.at = "insert" /\ new.base = tx[s].base
        /\ new.run = tx[s].run /\ new.rows = tx[s].rows
        /\ new.run \in Runs /\ new.model \in Models /\ new.reply \in Replies
    BY <1>1, <1>6, <2>2 DEF Transactions, Writing, LockRows, Legal
  <2>4. tx'[s] = new
    BY <1>1, <2>1
  <2>5. tx[s].base = 0 \/ tx[s].base \in Seqs(Visible(s), tx[s].run)
    BY <1>6 DEF IInv, BaseIsVisible, LockRows
  <2> HIDE DEF new
  <2> QED BY <1>6, <2>1, <2>3, <2>4, <2>5 DEF LockRows, Legal
<1>7. CASE InsertRefused(s)
  <2> DEFINE new == [Forget(s) EXCEPT !.at = "failed"]
  <2>1. tx' = [tx EXCEPT ![s] = new] /\ tx'[s] = new
    BY <1>1, <1>7 DEF InsertRefused
  <2>2. new \in Transactions /\ new.at = "failed" /\ new.rows = tx[s].rows
    BY <1>1, ForgetFacts DEF Transactions
  <2> HIDE DEF new
  <2> QED BY <1>7, <2>1, <2>2 DEF InsertRefused, Legal, Writing
<1> QED BY <1>2, <1>3, <1>4, <1>5, <1>6, <1>7 DEF Quiet

-----------------------------------------------------------------------------
(* The invariant                                                           *)

LEMMA InitIInv == Init => IInv
<1> SUFFICES ASSUME Init PROVE IInv
  OBVIOUS
<1>1. NoTx(0) \in Transactions /\ NoTx(0).at = "idle" /\ NoTx(0).rows = {}
  BY DEF NoTx, Transactions
<1>2. \A s \in Sessions : tx[s] = NoTx(0)
  BY DEF Init
<1>3. Types
  <2> HIDE DEF NoTx
  <2>1. tx \in [Sessions -> Transactions]
    BY <1>1 DEF Init
  <2> QED BY <1>1, <1>2, <2>1 DEF Init, Types, Writing
<1>4. \A r : Dense({}, r)
  <2>1. 0 \in Nat /\ 1..0 = {}
    OBVIOUS
  <2>2. \A r : OfRun({}, r) = {} /\ Seqs({}, r) = {}
    BY DEF OfRun, Seqs
  <2> QED BY <2>1, <2>2 DEF Dense
<1>5. \A s \in Sessions : Visible(s) = {}
  BY <1>1, <1>2 DEF Init, Visible
<1> QED BY <1>1, <1>2, <1>3, <1>4, <1>5
        DEF Init, IInv, CommittedDense, VisibleDense, OneWriter, BaseIsVisible, PendingIsNew

\* A legal transaction in the place of another one.
LEMMA TypesKept ==
  ASSUME Types, NEW s \in Sessions, NEW new, Legal(new), tx' = [tx EXCEPT ![s] = new],
         token_usage' \subseteq Rows, replied' \subseteq Replies
  PROVE  Types'
BY DEF Types, Legal, Transactions, Rows, Replies, Models, Writing

LEMMA QuietKeepsIInv ==
  ASSUME IInv, NEW s \in Sessions, Quiet(s)
  PROVE  IInv'
<1>1. QuietResult(s)
  BY QuietSteps
<1>2. Types /\ tx \in [Sessions -> Transactions]
  BY DEF IInv, Types
<1>3. Types'
  BY <1>1, <1>2, TypesKept DEF QuietResult, Types
<1>4. \A t \in Sessions : tx'[t].rows = tx[t].rows /\ (t # s => tx'[t] = tx[t])
  BY <1>1, <1>2 DEF QuietResult
<1>5. token_usage' = token_usage /\ \A t \in Sessions : Visible(t)' = Visible(t)
  BY <1>1, <1>4 DEF QuietResult, Visible
<1>6. CommittedDense' /\ VisibleDense'
  BY <1>5 DEF IInv, CommittedDense, VisibleDense, Dense, Seqs, OfRun
<1>7. OneWriter'
  BY <1>4 DEF IInv, OneWriter
<1>8. BaseIsVisible'
  BY <1>1, <1>4, <1>5 DEF IInv, BaseIsVisible, QuietResult, Seqs, OfRun
<1>9. PendingIsNew'
  BY <1>4, <1>5 DEF IInv, PendingIsNew
<1> QED BY <1>3, <1>6, <1>7, <1>8, <1>9 DEF IInv

\* An INSERT that is accepted is the only one on its run: a session that sees
\* no more than the committed rows would ask for the first uncommitted seq of
\* another one, and wait.
LEMMA InsertIsAlone ==
  ASSUME IInv, NEW s \in Sessions, Insert(s), NEW t \in Sessions \ {s}, NEW row \in tx[t].rows
  PROVE  row.run # tx[s].run
<1> SUFFICES ASSUME row.run = tx[s].run PROVE FALSE
  OBVIOUS
<1> DEFINE r == tx[s].run
           base == tx[s].base
<1>1. r \in Runs /\ base \in Nat /\ row \in Rows
  BY DEF IInv, Types, Insert, MayInsert, Writing, Transactions
<1>2. OfRun(tx[s].rows, r) = {}
  BY DEF IInv, OneWriter, OfRun
<1>3. OfRun(Visible(s), r) = OfRun(token_usage, r)
  BY <1>2 DEF Visible, OfRun
<1>4. PICK n \in Nat : Seqs(token_usage, r) = 1..n
  BY <1>1 DEF IInv, CommittedDense, Dense
<1>5. PICK m \in Nat : Seqs(Visible(t), r) = 1..m
  BY <1>1 DEF IInv, VisibleDense, Dense
<1>6. base \in 0..n
  BY <1>1, <1>3, <1>4 DEF IInv, BaseIsVisible, Insert, MayInsert, Seqs
<1>7. base + 1 \notin Seqs(token_usage, r)
  BY <1>3 DEF Insert, Taken, SameKey, Row, Seqs, OfRun, Visible
<1>8. base = n
  BY <1>4, <1>6, <1>7
<1>9. base + 1 \notin {other.seq : other \in OfRun(tx[t].rows, r)}
  BY DEF Insert, MayInsert, Taken, SameKey, Row, OfRun
<1>10. m <= n
  <2>1. Seqs(Visible(t), r) = Seqs(token_usage, r) \cup {other.seq : other \in OfRun(tx[t].rows, r)}
    BY DEF Seqs, Visible, OfRun
  <2>2. n + 1 \notin 1..m
    BY <1>4, <1>5, <1>8, <1>9, <2>1
  <2> QED BY <2>2
<1>11. row.seq \in 1..n
  <2>1. row.seq \in Seqs(Visible(t), r)
    BY DEF Seqs, Visible, OfRun
  <2> QED BY <1>5, <1>10, <2>1
<1>12. PICK other \in OfRun(token_usage, r) : other.seq = row.seq
  BY <1>4, <1>11 DEF Seqs
<1>13. row \in OfRun(Visible(t), r) /\ other \in OfRun(Visible(t), r)
  BY <1>12 DEF OfRun, Visible
<1>14. row = other
  BY <1>1, <1>12, <1>13 DEF IInv, VisibleDense, Dense
<1> QED BY <1>12, <1>14 DEF IInv, PendingIsNew, OfRun

LEMMA InsertKeepsIInv ==
  ASSUME IInv, NEW s \in Sessions, Insert(s)
  PROVE  IInv'
<1> DEFINE r == tx[s].run
           new == [Forget(s) EXCEPT !.rows = @ \cup {Row(s)}, !.replies = @ \cup {tx[s].reply}]
<1>1. /\ Types /\ tx \in [Sessions -> Transactions] /\ tx[s] \in Transactions
      /\ r \in Runs /\ tx[s].reply \in Replies /\ tx[s].base \in Nat
  BY DEF IInv, Types, Insert, MayInsert, Writing, Transactions
<1>2. Row(s) \in Rows /\ Row(s).run = r /\ Row(s).seq = tx[s].base + 1
  <2>1. tx[s].model \in Models
    BY DEF IInv, Types, Insert, MayInsert, Writing
  <2> QED BY <1>1, <2>1 DEF Row, Rows, Replies
<1>3. /\ new \in Transactions /\ new.at = "idle" /\ new.rows = tx[s].rows \cup {Row(s)}
  BY <1>1, <1>2, ForgetFacts DEF Transactions
<1>4. tx' = [tx EXCEPT ![s] = new] /\ token_usage' = token_usage /\ replied' = replied
  BY DEF Insert
<1> HIDE DEF new
<1>5. Types'
  BY <1>1, <1>3, <1>4, TypesKept DEF Types, Legal, Writing
<1>6. /\ tx'[s] = new
      /\ \A t \in Sessions \ {s} : tx'[t] = tx[t]
  BY <1>1, <1>4
<1>7. /\ Visible(s)' = Visible(s) \cup {Row(s)}
      /\ \A t \in Sessions \ {s} : Visible(t)' = Visible(t)
  BY <1>3, <1>4, <1>6 DEF Visible
<1>8. CommittedDense'
  BY <1>4 DEF IInv, CommittedDense, Dense, Seqs, OfRun
<1>9. \A q \in Runs : Dense(Visible(s) \cup {Row(s)}, q)
  <2> TAKE q \in Runs
  <2>1. Dense(Visible(s), q)
    BY DEF IInv, VisibleDense
  <2>2. CASE q = r
    <3>1. Row(s).seq \notin Seqs(Visible(s), r)
      BY <1>2 DEF Insert, Taken, SameKey, Seqs, OfRun
    <3>2. Row(s).seq = 1 \/ Row(s).seq - 1 \in Seqs(Visible(s), r)
      BY <1>1, <1>2 DEF IInv, BaseIsVisible, Insert, MayInsert
    <3>3. Row(s).seq \in Nat
      BY <1>1, <1>2
    <3> QED BY <1>2, <2>1, <2>2, <3>1, <3>2, <3>3, DenseAdd
  <2>3. CASE q # r
    <3>1. OfRun(Visible(s) \cup {Row(s)}, q) = OfRun(Visible(s), q)
      BY <1>2, <2>3 DEF OfRun
    <3> QED BY <2>1, <3>1, DenseSame
  <2> QED BY <2>2, <2>3
<1>10. VisibleDense'
  BY <1>7, <1>9 DEF IInv, VisibleDense, Dense, Seqs, OfRun
<1>11. OneWriter'
  BY <1>2, <1>3, <1>6, InsertIsAlone DEF IInv, OneWriter
<1>12. BaseIsVisible'
  BY <1>3, <1>6, <1>7 DEF IInv, BaseIsVisible, Seqs, OfRun
<1>13. PendingIsNew'
  <2>1. Row(s) \notin token_usage
    BY DEF Insert, Taken, SameKey, Visible
  <2> QED BY <1>3, <1>4, <1>6, <2>1 DEF IInv, PendingIsNew
<1> QED BY <1>5, <1>8, <1>10, <1>11, <1>12, <1>13 DEF IInv

LEMMA CommitKeepsIInv ==
  ASSUME IInv, NEW s \in Sessions, Commit(s)
  PROVE  IInv'
<1> DEFINE new == NoTx(tx[s].calls)
<1>1. Types /\ tx \in [Sessions -> Transactions] /\ tx[s] \in Transactions
  BY DEF IInv, Types
<1>2. new \in Transactions /\ new.at = "idle" /\ new.rows = {}
  BY <1>1 DEF NoTx, Transactions
<1>3. /\ tx' = [tx EXCEPT ![s] = new] /\ token_usage' = Visible(s)
      /\ replied' = replied \cup tx[s].replies
  BY DEF Commit, Visible
<1> HIDE DEF new
<1>4. Types'
  <2>1. token_usage' \subseteq Rows /\ replied' \subseteq Replies
    BY <1>1, <1>3 DEF Visible, Types, Transactions
  <2> QED BY <1>1, <1>2, <1>3, <2>1, TypesKept DEF Legal, Writing
<1>5. /\ tx'[s] = new
      /\ \A t \in Sessions \ {s} : tx'[t] = tx[t]
  BY <1>1, <1>3
<1>6. /\ Visible(s)' = Visible(s)
      /\ \A t \in Sessions \ {s} : Visible(t)' = Visible(t) \cup tx[s].rows
  BY <1>2, <1>3, <1>5 DEF Visible
<1>7. CommittedDense'
  BY <1>3 DEF IInv, VisibleDense, CommittedDense, Dense, Seqs, OfRun
<1>8. ASSUME NEW t \in Sessions \ {s}, NEW q \in Runs
      PROVE  Dense(Visible(t) \cup tx[s].rows, q)
  <2>1. CASE OfRun(tx[s].rows, q) = {}
    <3>1. OfRun(Visible(t) \cup tx[s].rows, q) = OfRun(Visible(t), q)
      BY <2>1 DEF OfRun
    <3> QED BY <3>1, DenseSame DEF IInv, VisibleDense
  <2>2. CASE OfRun(tx[s].rows, q) # {}
    <3>1. OfRun(tx[t].rows, q) = {}
      BY <2>2 DEF IInv, OneWriter, OfRun
    <3>2. OfRun(Visible(t) \cup tx[s].rows, q) = OfRun(Visible(s), q)
      BY <3>1 DEF OfRun, Visible
    <3> QED BY <3>2, DenseSame DEF IInv, VisibleDense
  <2> QED BY <2>1, <2>2
<1>9. VisibleDense'
  BY <1>6, <1>8 DEF IInv, VisibleDense, Dense, Seqs, OfRun
<1>10. OneWriter'
  BY <1>2, <1>5 DEF IInv, OneWriter
<1>11. BaseIsVisible'
  BY <1>2, <1>5, <1>6 DEF IInv, BaseIsVisible, Seqs, OfRun
<1>12. PendingIsNew'
  BY <1>2, <1>3, <1>5 DEF IInv, PendingIsNew, OneWriter, Visible
<1> QED BY <1>4, <1>7, <1>9, <1>10, <1>11, <1>12 DEF IInv

LEMMA RollbackKeepsIInv ==
  ASSUME IInv, NEW s \in Sessions, Rollback(s)
  PROVE  IInv'
<1> DEFINE new == NoTx(tx[s].calls)
<1>1. Types /\ tx \in [Sessions -> Transactions] /\ tx[s] \in Transactions
  BY DEF IInv, Types
<1>2. new \in Transactions /\ new.at = "idle" /\ new.rows = {}
  BY <1>1 DEF NoTx, Transactions
<1>3. tx' = [tx EXCEPT ![s] = new] /\ token_usage' = token_usage /\ replied' = replied
  BY DEF Rollback
<1> HIDE DEF new
<1>4. Types'
  BY <1>1, <1>2, <1>3, TypesKept DEF Types, Legal, Writing
<1>5. /\ tx'[s] = new
      /\ \A t \in Sessions \ {s} : tx'[t] = tx[t]
  BY <1>1, <1>3
<1>6. /\ Visible(s)' = token_usage
      /\ \A t \in Sessions \ {s} : Visible(t)' = Visible(t)
  BY <1>2, <1>3, <1>5 DEF Visible
<1>7. CommittedDense'
  BY <1>3 DEF IInv, CommittedDense, Dense, Seqs, OfRun
<1>8. VisibleDense'
  BY <1>6 DEF IInv, VisibleDense, CommittedDense, Dense, Seqs, OfRun
<1>9. OneWriter'
  BY <1>2, <1>5 DEF IInv, OneWriter
<1>10. BaseIsVisible'
  BY <1>2, <1>5, <1>6 DEF IInv, BaseIsVisible, Seqs, OfRun
<1>11. PendingIsNew'
  BY <1>2, <1>3, <1>5 DEF IInv, PendingIsNew
<1> QED BY <1>4, <1>7, <1>8, <1>9, <1>10, <1>11 DEF IInv

LEMMA NextIInv == IInv /\ [Next]_vars => IInv'
<1> SUFFICES ASSUME IInv, [Next]_vars PROVE IInv'
  OBVIOUS
<1>1. CASE UNCHANGED vars
  BY <1>1 DEF vars, IInv, Types, CommittedDense, VisibleDense, OneWriter, BaseIsVisible,
              PendingIsNew, Dense, Seqs, OfRun, Visible
<1>2. ASSUME NEW s \in Sessions, Quiet(s) \/ Insert(s) \/ Commit(s) \/ Rollback(s)
      PROVE  IInv'
  BY <1>2, QuietKeepsIInv, InsertKeepsIInv, CommitKeepsIInv, RollbackKeepsIInv
<1>3. CASE Next
  <2>1. \E s \in Sessions : Quiet(s) \/ Insert(s) \/ Commit(s) \/ Rollback(s)
    BY <1>3 DEF Next, Quiet
  <2> QED BY <1>2, <2>1
<1> QED BY <1>1, <1>3

(***************************************************************************)
(* The seqs of the usage rows of a run are 1 to n, one row each: FOR       *)
(* UPDATE lets two calls through that read one maximum, and the UNIQUE     *)
(* constraint, which waits for the rows it cannot see, stops one of them.  *)
(***************************************************************************)
THEOREM UsageIsDense == Spec => []UsageDense
<1>1. Init => IInv
  BY InitIInv
<1>2. IInv /\ [Next]_vars => IInv'
  BY NextIInv
<1>3. IInv => UsageDense
  <2> SUFFICES ASSUME IInv, NEW r \in Runs
               PROVE  {row.seq : row \in OfRun(token_usage, r)}
                        = 1..Cardinality(OfRun(token_usage, r))
    BY DEF UsageDense
  <2>1. PICK n \in Nat : {row.seq : row \in OfRun(token_usage, r)} = 1..n
    BY DEF IInv, CommittedDense, Dense, Seqs
  <2>2. Cardinality(OfRun(token_usage, r)) = n
    BY <2>1, DenseCount DEF IInv, CommittedDense, Dense
  <2> QED BY <2>1, <2>2
<1> QED BY <1>1, <1>2, <1>3, PTL DEF Spec

-----------------------------------------------------------------------------
(* Rows and replies                                                        *)

\* The completion that a row was made of.
ReplyOf(row) ==
  [call |-> row.call, run |-> row.run, model |-> row.model, tokens |-> row.tokens]

Asked == Writing \cup {"model"}

\* The completion in hand is the answer to the call that complete() is in.
InHand ==
  \A s \in Sessions : tx[s].at \in Writing =>
    /\ tx[s].reply.call = <<s, tx[s].calls>>
    /\ tx[s].reply.run = tx[s].run /\ tx[s].reply.model = tx[s].model

\* No row is of a call to come, nor of the one that is on its way.
CallsNumbered ==
  \A s \in Sessions :
    /\ \A row \in Visible(s) : row.call[1] = s => row.call[2] <= tx[s].calls
    /\ \A row \in tx[s].rows : row.call[1] = s
    /\ tx[s].at \in Asked => \A row \in Visible(s) : row.call # <<s, tx[s].calls>>

OneRowPerCall ==
  \A s \in Sessions : \A a, b \in Visible(s) : a.call = b.call => a = b

RowsAreReplies ==
  /\ replied = {ReplyOf(row) : row \in token_usage}
  /\ \A s \in Sessions : tx[s].replies = {ReplyOf(row) : row \in tx[s].rows}

\* Inductive beside IInv.
Billing == InHand /\ CallsNumbered /\ OneRowPerCall /\ RowsAreReplies

LEMMA InitBilling == Init => Billing
<1> SUFFICES ASSUME Init PROVE Billing
  OBVIOUS
<1>1. NoTx(0).at = "idle" /\ NoTx(0).rows = {} /\ NoTx(0).replies = {}
  BY DEF NoTx
<1>2. \A s \in Sessions : tx[s] = NoTx(0)
  BY DEF Init
<1>3. \A s \in Sessions : Visible(s) = {}
  BY <1>1, <1>2 DEF Init, Visible
<1> QED BY <1>1, <1>2, <1>3 DEF Init, Billing, InHand, CallsNumbered, OneRowPerCall,
                                RowsAreReplies, Writing, Asked

\* What a quiet step of s does to its calls.
QuietCalls(s) ==
  LET new == tx'[s] IN
  /\ new.replies = tx[s].replies
  /\ new.calls \in {tx[s].calls, tx[s].calls + 1}
  /\ new.at \in Writing =>
       /\ new.reply.call = <<s, new.calls>>
       /\ new.reply.run = new.run /\ new.reply.model = new.model
  /\ new.at \in Asked => \A row \in Visible(s) : row.call # <<s, new.calls>>

LEMMA QuietCallsSteps ==
  ASSUME IInv, Billing, NEW s \in Sessions, Quiet(s)
  PROVE  QuietCalls(s)
<1> USE DEF QuietCalls
<1>1. /\ Types /\ tx \in [Sessions -> Transactions] /\ tx[s] \in Transactions
      /\ tx[s].calls \in Nat
  BY DEF IInv, Types, Transactions
<1>2. ASSUME NEW name \in DOMAIN Providers \cup {None}, NEW r \in Runs \cup {None},
             Complete(s, name, r)
      PROVE  QuietCalls(s)
  <2> DEFINE model == Providers[IF name = None THEN Default ELSE name]
             new == [tx[s] EXCEPT !.at = "model", !.run = r, !.model = model, !.calls = @ + 1]
  <2>1. tx'[s] = new
    BY <1>2, <1>1 DEF Complete
  <2> HIDE DEF model
  <2>2. new.at = "model" /\ new.calls = tx[s].calls + 1 /\ new.replies = tx[s].replies
    BY <1>1 DEF Transactions
  <2>3. ASSUME NEW row \in Visible(s), row.call = <<s, tx[s].calls + 1>> PROVE FALSE
    <3>1. tx[s].calls + 1 <= tx[s].calls
      BY <2>3 DEF Billing, CallsNumbered
    <3> QED BY <1>1, <3>1
  <2> HIDE DEF new
  <2> QED BY <2>1, <2>2, <2>3 DEF Writing, Asked
<1>3. ASSUME NEW tokens \in Tokens, Answer(s, tokens)
      PROVE  QuietCalls(s)
  <2> DEFINE reply == [call |-> <<s, tx[s].calls>>, run |-> tx[s].run,
                       model |-> tx[s].model, tokens |-> tokens]
             new == IF tx[s].run = None THEN Forget(s)
                    ELSE [tx[s] EXCEPT !.at = "max", !.reply = reply]
  <2>1. tx'[s] = new /\ tx[s].at = "model"
    BY <1>1, <1>3 DEF Answer
  <2>2. CASE tx[s].run = None
    BY <1>1, <2>1, <2>2, ForgetFacts DEF Writing, Asked
  <2>3. CASE tx[s].run # None
    <3>1. /\ new.at = "max" /\ new.reply = reply /\ new.calls = tx[s].calls
          /\ new.run = tx[s].run /\ new.model = tx[s].model /\ new.replies = tx[s].replies
      BY <1>1, <2>3 DEF Transactions
    <3>2. /\ reply.call = <<s, tx[s].calls>> /\ reply.run = tx[s].run
          /\ reply.model = tx[s].model
      OBVIOUS
    <3> HIDE DEF new, reply
    <3> QED BY <2>1, <3>1, <3>2 DEF Billing, CallsNumbered, Asked
  <2> QED BY <2>2, <2>3
<1>4. CASE ProviderRaises(s)
  BY <1>1, <1>4, ForgetFacts DEF ProviderRaises, Writing, Asked
<1>5. CASE ComputeNextSeq(s)
  <2> DEFINE base == Max({0} \cup {row.seq : row \in OfRun(Visible(s), tx[s].run)})
             new == [tx[s] EXCEPT !.base = base, !.at = "lock"]
  <2>1. tx'[s] = new /\ tx[s].at = "max"
    BY <1>1, <1>5 DEF ComputeNextSeq
  <2> HIDE DEF base
  <2>2. /\ new.reply = tx[s].reply /\ new.calls = tx[s].calls /\ new.run = tx[s].run
        /\ new.model = tx[s].model /\ new.replies = tx[s].replies
    BY <1>1 DEF Transactions
  <2> HIDE DEF new
  <2> QED BY <2>1, <2>2 DEF Billing, InHand, CallsNumbered, Writing, Asked
<1>6. CASE LockRows(s)
  <2> DEFINE held == IF OfRun(token_usage, tx[s].run) # {} /\ tx[s].base > 0
                     THEN {tx[s].run} ELSE {}
             new == [tx[s] EXCEPT !.locks = @ \cup held, !.at = "insert"]
  <2>1. tx'[s] = new /\ tx[s].at = "lock"
    BY <1>1, <1>6 DEF LockRows
  <2> HIDE DEF held
  <2>2. /\ new.reply = tx[s].reply /\ new.calls = tx[s].calls /\ new.run = tx[s].run
        /\ new.model = tx[s].model /\ new.replies = tx[s].replies
    BY <1>1 DEF Transactions
  <2> HIDE DEF new
  <2> QED BY <2>1, <2>2 DEF Billing, InHand, CallsNumbered, Writing, Asked
<1>7. CASE InsertRefused(s)
  <2> DEFINE new == [Forget(s) EXCEPT !.at = "failed"]
  <2>1. tx'[s] = new
    BY <1>1, <1>7 DEF InsertRefused
  <2>2. new.at = "failed" /\ new.calls = tx[s].calls /\ new.replies = tx[s].replies
    BY <1>1, ForgetFacts DEF Transactions
  <2> HIDE DEF new
  <2> QED BY <2>1, <2>2 DEF Writing, Asked
<1> QED BY <1>2, <1>3, <1>4, <1>5, <1>6, <1>7 DEF Quiet

LEMMA QuietKeepsBilling ==
  ASSUME IInv, Billing, NEW s \in Sessions, Quiet(s)
  PROVE  Billing'
<1>1. QuietResult(s) /\ QuietCalls(s)
  BY QuietSteps, QuietCallsSteps
<1>2. Types /\ tx \in [Sessions -> Transactions] /\ tx[s].calls \in Nat
  BY DEF IInv, Types, Transactions
<1>3. \A t \in Sessions : tx'[t].rows = tx[t].rows /\ (t # s => tx'[t] = tx[t])
  BY <1>1, <1>2 DEF QuietResult
<1>4. /\ token_usage' = token_usage /\ replied' = replied
      /\ \A t \in Sessions : Visible(t)' = Visible(t)
  BY <1>1, <1>3 DEF QuietResult, Visible
<1>5. InHand'
  BY <1>1, <1>3 DEF Billing, InHand, QuietCalls
<1>6. CallsNumbered'
  <2> SUFFICES ASSUME NEW t \in Sessions
               PROVE  /\ \A row \in Visible(t) : row.call[1] = t => row.call[2] <= tx'[t].calls
                      /\ \A row \in tx[t].rows : row.call[1] = t
                      /\ tx'[t].at \in Asked =>
                           \A row \in Visible(t) : row.call # <<t, tx'[t].calls>>
    BY <1>3, <1>4 DEF CallsNumbered
  <2>1. CASE t # s
    BY <1>3, <2>1 DEF Billing, CallsNumbered
  <2>2. CASE t = s
    <3>1. ASSUME NEW row \in Visible(s), row.call[1] = s PROVE row.call[2] <= tx'[s].calls
      <4>1. row.call[2] <= tx[s].calls /\ row.call[2] \in Nat
        BY <1>2, <3>1 DEF Billing, CallsNumbered, Types, Visible, Rows, Transactions
      <4> QED BY <1>1, <1>2, <4>1 DEF QuietCalls
    <3> QED BY <1>1, <2>2, <3>1 DEF Billing, CallsNumbered, QuietCalls
  <2> QED BY <2>1, <2>2
<1>7. OneRowPerCall'
  BY <1>4 DEF Billing, OneRowPerCall
<1>8. RowsAreReplies'
  BY <1>1, <1>3, <1>4 DEF Billing, RowsAreReplies, QuietCalls
<1> QED BY <1>5, <1>6, <1>7, <1>8 DEF Billing

LEMMA InsertKeepsBilling ==
  ASSUME IInv, Billing, NEW s \in Sessions, Insert(s)
  PROVE  Billing'
<1> DEFINE new == [Forget(s) EXCEPT !.rows = @ \cup {Row(s)}, !.replies = @ \cup {tx[s].reply}]
           call == <<s, tx[s].calls>>
<1>1. /\ Types /\ tx \in [Sessions -> Transactions] /\ tx[s] \in Transactions
      /\ tx[s].reply \in Replies /\ tx[s].calls \in Nat /\ tx[s].at \in Writing
  BY DEF IInv, Types, Insert, MayInsert, Writing, Transactions
<1>2. /\ Row(s).call = call /\ ReplyOf(Row(s)) = tx[s].reply
  <2>1. /\ tx[s].reply.call = call /\ tx[s].reply.run = tx[s].run
        /\ tx[s].reply.model = tx[s].model
    BY <1>1 DEF Billing, InHand
  <2> QED BY <1>1, <2>1 DEF Row, ReplyOf, Replies
<1>3. /\ new.at = "idle" /\ new.rows = tx[s].rows \cup {Row(s)}
      /\ new.replies = tx[s].replies \cup {tx[s].reply} /\ new.calls = tx[s].calls
  BY <1>1, ForgetFacts DEF Transactions
<1>4. tx' = [tx EXCEPT ![s] = new] /\ token_usage' = token_usage /\ replied' = replied
  BY DEF Insert
<1> HIDE DEF new
<1>5. tx'[s] = new /\ \A t \in Sessions \ {s} : tx'[t] = tx[t]
  BY <1>1, <1>4
<1>6. /\ Visible(s)' = Visible(s) \cup {Row(s)}
      /\ \A t \in Sessions \ {s} : Visible(t)' = Visible(t)
  BY <1>3, <1>4, <1>5 DEF Visible
<1>7. InHand'
  BY <1>3, <1>5 DEF Billing, InHand, Writing
<1>8. CallsNumbered'
  <2>1. \A t \in Sessions \ {s} :
          /\ tx'[t] = tx[t] /\ Visible(t)' = Visible(t)
    BY <1>5, <1>6
  <2>2. /\ \A row \in Visible(s) \cup {Row(s)} : row.call[1] = s => row.call[2] <= new.calls
        /\ \A row \in new.rows : row.call[1] = s
        /\ new.at \notin Asked
    <3>1. call[1] = s /\ call[2] = tx[s].calls /\ tx[s].calls <= tx[s].calls
      BY <1>1
    <3> HIDE DEF call
    <3> QED BY <1>2, <1>3, <3>1 DEF Billing, CallsNumbered, Writing, Asked
  <2> SUFFICES ASSUME NEW t \in Sessions
               PROVE  /\ \A row \in Visible(t)' : row.call[1] = t => row.call[2] <= tx'[t].calls
                      /\ \A row \in tx'[t].rows : row.call[1] = t
                      /\ tx'[t].at \in Asked =>
                           \A row \in Visible(t)' : row.call # <<t, tx'[t].calls>>
    BY DEF CallsNumbered
  <2>3. CASE t = s
    BY <1>5, <1>6, <2>2, <2>3
  <2>4. CASE t # s
    BY <2>1, <2>4 DEF Billing, CallsNumbered
  <2> QED BY <2>3, <2>4
<1>9. OneRowPerCall'
  <2>1. \A row \in Visible(s) : row.call # Row(s).call
    BY <1>1, <1>2 DEF Billing, CallsNumbered, Asked
  <2> QED BY <1>6, <2>1 DEF Billing, OneRowPerCall
<1>10. RowsAreReplies'
  <2>1. {ReplyOf(row) : row \in tx[s].rows \cup {Row(s)}}
          = {ReplyOf(row) : row \in tx[s].rows} \cup {tx[s].reply}
    BY <1>2
  <2> QED BY <1>3, <1>4, <1>5, <2>1 DEF Billing, RowsAreReplies
<1> QED BY <1>7, <1>8, <1>9, <1>10 DEF Billing

LEMMA CommitKeepsBilling ==
  ASSUME IInv, Billing, NEW s \in Sessions, Commit(s)
  PROVE  Billing'
<1> DEFINE new == NoTx(tx[s].calls)
<1>1. /\ Types /\ tx \in [Sessions -> Transactions] /\ tx[s] \in Transactions
      /\ \A t \in Sessions : tx[t].calls \in Nat /\ Visible(t) \subseteq Rows
  BY DEF IInv, Types, Transactions, Visible
<1>2. /\ new.at = "idle" /\ new.rows = {} /\ new.replies = {} /\ new.calls = tx[s].calls
  BY DEF NoTx
<1>3. /\ tx' = [tx EXCEPT ![s] = new] /\ token_usage' = Visible(s)
      /\ replied' = replied \cup tx[s].replies
  BY DEF Commit, Visible
<1> HIDE DEF new
<1>4. tx'[s] = new /\ \A t \in Sessions \ {s} : tx'[t] = tx[t]
  BY <1>1, <1>3
<1>5. /\ Visible(s)' = Visible(s)
      /\ \A t \in Sessions \ {s} : Visible(t)' = Visible(t) \cup tx[s].rows
  BY <1>2, <1>3, <1>4 DEF Visible
<1>6. \A row \in tx[s].rows : row.call[1] = s
  BY DEF Billing, CallsNumbered
<1>7. InHand'
  BY <1>2, <1>4 DEF Billing, InHand, Writing
<1>8. CallsNumbered'
  <2> SUFFICES ASSUME NEW t \in Sessions
               PROVE  /\ \A row \in Visible(t)' : row.call[1] = t => row.call[2] <= tx'[t].calls
                      /\ \A row \in tx'[t].rows : row.call[1] = t
                      /\ tx'[t].at \in Asked =>
                           \A row \in Visible(t)' : row.call # <<t, tx'[t].calls>>
    BY DEF CallsNumbered
  <2>1. CASE t = s
    BY <1>2, <1>4, <1>5, <2>1 DEF Billing, CallsNumbered, Writing, Asked
  <2>2. CASE t # s
    <3>1. \A row \in tx[s].rows : row.call[1] # t /\ row.call # <<t, tx[t].calls>>
      BY <1>6, <2>2
    <3> QED BY <1>4, <1>5, <2>2, <3>1 DEF Billing, CallsNumbered
  <2> QED BY <2>1, <2>2
<1>9. OneRowPerCall'
  <2> SUFFICES ASSUME NEW t \in Sessions, NEW a \in Visible(t)', NEW b \in Visible(t)',
                      a.call = b.call
               PROVE  a = b
    BY DEF OneRowPerCall
  <2>1. CASE t = s
    BY <1>5, <2>1 DEF Billing, OneRowPerCall
  <2>2. CASE t # s
    <3>1. \A row \in tx[t].rows : row.call[1] = t
      BY DEF Billing, CallsNumbered
    <3>2. (a \in Visible(t) /\ b \in Visible(t)) \/ (a \in Visible(s) /\ b \in Visible(s))
      BY <1>5, <1>6, <2>2, <3>1 DEF Visible
    <3> QED BY <3>2 DEF Billing, OneRowPerCall
  <2> QED BY <2>1, <2>2
<1>10. RowsAreReplies'
  <2>1. {ReplyOf(row) : row \in Visible(s)}
          = {ReplyOf(row) : row \in token_usage} \cup {ReplyOf(row) : row \in tx[s].rows}
    BY DEF Visible
  <2> QED BY <1>2, <1>3, <1>4, <2>1 DEF Billing, RowsAreReplies
<1> QED BY <1>7, <1>8, <1>9, <1>10 DEF Billing

LEMMA RollbackKeepsBilling ==
  ASSUME IInv, Billing, NEW s \in Sessions, Rollback(s)
  PROVE  Billing'
<1> DEFINE new == NoTx(tx[s].calls)
<1>1. tx \in [Sessions -> Transactions]
  BY DEF IInv, Types
<1>2. /\ new.at = "idle" /\ new.rows = {} /\ new.replies = {} /\ new.calls = tx[s].calls
  BY DEF NoTx
<1>3. tx' = [tx EXCEPT ![s] = new] /\ token_usage' = token_usage /\ replied' = replied
  BY DEF Rollback
<1> HIDE DEF new
<1>4. tx'[s] = new /\ \A t \in Sessions \ {s} : tx'[t] = tx[t]
  BY <1>1, <1>3
<1>5. /\ Visible(s)' = token_usage /\ token_usage \subseteq Visible(s)
      /\ \A t \in Sessions \ {s} : Visible(t)' = Visible(t)
  BY <1>2, <1>3, <1>4 DEF Visible
<1>6. InHand'
  BY <1>2, <1>4 DEF Billing, InHand, Writing
<1>7. CallsNumbered'
  BY <1>2, <1>4, <1>5 DEF Billing, CallsNumbered, Writing, Asked
<1>8. OneRowPerCall'
  BY <1>5 DEF Billing, OneRowPerCall
<1>9. RowsAreReplies'
  BY <1>2, <1>3, <1>4 DEF Billing, RowsAreReplies
<1> QED BY <1>6, <1>7, <1>8, <1>9 DEF Billing

LEMMA NextBilling == IInv /\ Billing /\ [Next]_vars => Billing'
<1> SUFFICES ASSUME IInv, Billing, [Next]_vars PROVE Billing'
  OBVIOUS
<1>1. CASE UNCHANGED vars
  BY <1>1 DEF vars, Billing, InHand, CallsNumbered, OneRowPerCall, RowsAreReplies, Visible
<1>2. ASSUME NEW s \in Sessions, Quiet(s) \/ Insert(s) \/ Commit(s) \/ Rollback(s)
      PROVE  Billing'
  BY <1>2, QuietKeepsBilling, InsertKeepsBilling, CommitKeepsBilling, RollbackKeepsBilling
<1>3. CASE Next
  <2>1. \E s \in Sessions : Quiet(s) \/ Insert(s) \/ Commit(s) \/ Rollback(s)
    BY <1>3 DEF Next, Quiet
  <2> QED BY <1>2, <2>1
<1> QED BY <1>1, <1>3

-----------------------------------------------------------------------------
(* Sums                                                                    *)

\* What Total counts.
Units(f) == UNION {{x} \X (1..f[x]) : x \in DOMAIN f}

LEMMA UnitsAre ==
  ASSUME NEW f
  PROVE  /\ \A x \in DOMAIN f : \A k \in 1..f[x] : <<x, k>> \in Units(f)
         /\ \A u \in Units(f) :
              u = <<u[1], u[2]>> /\ u[1] \in DOMAIN f /\ u[2] \in 1..f[u[1]]
         /\ Total(f) = Cardinality(Units(f))
<1>1. \A x \in DOMAIN f : \A k \in 1..f[x] : <<x, k>> \in Units(f)
  <2> TAKE x \in DOMAIN f
  <2> TAKE k \in 1..f[x]
  <2>1. <<x, k>> \in {x} \X (1..f[x])
    OBVIOUS
  <2> QED BY <2>1 DEF Units
<1>2. \A u \in Units(f) : u = <<u[1], u[2]>> /\ u[1] \in DOMAIN f /\ u[2] \in 1..f[u[1]]
  <2> TAKE u \in Units(f)
  <2>1. PICK x \in DOMAIN f : u \in {x} \X (1..f[x])
    BY DEF Units
  <2>2. u = <<u[1], u[2]>> /\ u[1] = x /\ u[2] \in 1..f[x]
    BY <2>1
  <2> QED BY <2>2
<1>3. Total(f) = Cardinality(Units(f))
  BY DEF Total, Units
<1> QED BY <1>1, <1>2, <1>3

LEMMA UnitsFinite ==
  ASSUME NEW S, IsFiniteSet(S), NEW f \in [S -> Nat]
  PROVE  IsFiniteSet(Units(f)) /\ Total(f) \in Nat
<1> DEFINE Of(x) == {x} \X (1..f[x])
           parts == {Of(x) : x \in S}
           g == [x \in S |-> Of(x)]
<1>1. g \in Surjection(S, parts)
  BY DEF Surjection
<1>2. IsFiniteSet(parts)
  <2> HIDE DEF g, parts
  <2> QED BY <1>1, FS_Surjection
<1>3. ASSUME NEW x \in S PROVE IsFiniteSet(Of(x))
  <2>1. IsFiniteSet({x})
    BY FS_Singleton
  <2>2. 1 \in Int /\ f[x] \in Int
    OBVIOUS
  <2>3. IsFiniteSet(1..f[x])
    BY <2>2, FS_Interval
  <2> QED BY <2>1, <2>3, FS_Product
<1>4. \A T \in parts : IsFiniteSet(T)
  <2> HIDE DEF Of
  <2> QED BY <1>3
<1>5. IsFiniteSet(UNION parts)
  <2> HIDE DEF parts
  <2> QED BY <1>2, <1>4, FS_UNION
<1>6. UNION parts = Units(f)
  BY DEF Units
<1> QED BY <1>5, <1>6, UnitsAre, FS_CardinalityType

\* Values that are only named differently.
LEMMA TotalsEqual ==
  ASSUME NEW S, IsFiniteSet(S), NEW T, NEW f \in [S -> Nat], NEW g \in [T -> Nat],
         NEW h \in Bijection(S, T), \A x \in S : g[h[x]] = f[x]
  PROVE  Total(f) = Total(g)
<1> DEFINE H == [u \in Units(f) |-> <<h[u[1]], u[2]>>]
<1>1. /\ h \in [S -> T] /\ \A x, y \in S : h[x] = h[y] => x = y
      /\ \A y \in T : \E x \in S : h[x] = y
  BY DEF Bijection, Injection, Surjection, IsInjective
<1>2. \A u \in Units(f) : u = <<u[1], u[2]>> /\ u[1] \in S /\ u[2] \in 1..f[u[1]]
  BY UnitsAre
<1>3. \A v \in Units(g) : v = <<v[1], v[2]>> /\ v[1] \in T /\ v[2] \in 1..g[v[1]]
  BY UnitsAre
<1>4. H \in [Units(f) -> Units(g)]
  <2> SUFFICES ASSUME NEW u \in Units(f) PROVE <<h[u[1]], u[2]>> \in Units(g)
    OBVIOUS
  <2>1. h[u[1]] \in T /\ u[2] \in 1..g[h[u[1]]]
    BY <1>1, <1>2
  <2> QED BY <2>1, UnitsAre
<1>5. \A u, v \in Units(f) : H[u] = H[v] => u = v
  <2> SUFFICES ASSUME NEW u \in Units(f), NEW v \in Units(f), H[u] = H[v] PROVE u = v
    OBVIOUS
  <2>1. h[u[1]] = h[v[1]] /\ u[2] = v[2]
    OBVIOUS
  <2> QED BY <1>1, <1>2, <2>1
<1>6. \A v \in Units(g) : \E u \in Units(f) : H[u] = v
  <2> TAKE v \in Units(g)
  <2>1. PICK x \in S : h[x] = v[1]
    BY <1>1, <1>3
  <2>2. v[2] \in 1..f[x]
    BY <1>3, <2>1
  <2>3. <<x, v[2]>> \in Units(f)
    BY <2>2, UnitsAre
  <2>4. H[<<x, v[2]>>] = v
    BY <1>3, <2>1, <2>3
  <2> QED BY <2>3, <2>4
<1> HIDE DEF H
<1>7. H \in Bijection(Units(f), Units(g))
  BY <1>4, <1>5, <1>6 DEF Bijection, Injection, Surjection, IsInjective
<1>8. ExistsBijection(Units(f), Units(g))
  BY <1>7 DEF ExistsBijection
<1>9. Cardinality(Units(g)) = Cardinality(Units(f))
  BY <1>8, UnitsFinite, FS_Bijection
<1> QED BY <1>9, UnitsAre

\* A sum that is taken class by class.
Classes(S, c) == {c[x] : x \in S}
Part(S, f, c, m) == [x \in {y \in S : c[y] = m} |-> f[x]]
Parts(S, f, c) == [m \in Classes(S, c) |-> Total(Part(S, f, c, m))]

LEMMA TotalByClass ==
  ASSUME NEW S, IsFiniteSet(S), NEW f \in [S -> Nat], NEW c
  PROVE  /\ IsFiniteSet(Classes(S, c)) /\ Parts(S, f, c) \in [Classes(S, c) -> Nat]
         /\ Total(Parts(S, f, c)) = Total(f)
<1> USE DEF Classes, Part
<1> DEFINE classes == Classes(S, c)
           of(m) == {y \in S : c[y] = m}
           part(m) == Part(S, f, c, m)
           g == [m \in classes |-> Total(part(m))]
           B(m) == Bijection(1..g[m], Units(part(m)))
           b == [m \in classes |-> CHOOSE h : h \in B(m)]
           H == [u \in Units(g) |-> b[u[1]][u[2]]]
<1>1. IsFiniteSet(classes)
  <2> DEFINE h == [x \in S |-> c[x]]
  <2>1. h \in Surjection(S, classes)
    BY DEF Surjection
  <2> HIDE DEF h, classes
  <2> QED BY <2>1, FS_Surjection
<1>2. ASSUME NEW m \in classes
      PROVE  /\ IsFiniteSet(Units(part(m))) /\ g[m] \in Nat
             /\ g[m] = Cardinality(Units(part(m)))
  <2>1. IsFiniteSet(of(m))
    BY FS_Subset
  <2>2. part(m) \in [of(m) -> Nat]
    OBVIOUS
  <2> HIDE DEF of
  <2>3. IsFiniteSet(Units(part(m))) /\ Total(part(m)) \in Nat
    <3> HIDE DEF part
    <3> QED BY <2>1, <2>2, UnitsFinite
  <2>4. Total(part(m)) = Cardinality(Units(part(m)))
    BY UnitsAre
  <2>5. g[m] = Total(part(m))
    OBVIOUS
  <2> QED BY <2>3, <2>4, <2>5
<1>3. g \in [classes -> Nat]
  <2>1. DOMAIN g = classes /\ g = [m \in classes |-> g[m]]
    OBVIOUS
  <2> HIDE DEF g
  <2> QED BY <1>2, <2>1
<1>4. ASSUME NEW m \in classes PROVE b[m] \in B(m)
  <2>1. ExistsBijection(1..Cardinality(Units(part(m))), Units(part(m)))
    BY <1>2, FS_CardinalityType
  <2>2. \E h : h \in B(m)
    <3> HIDE DEF part, g
    <3> QED BY <1>2, <2>1 DEF ExistsBijection
  <2> HIDE DEF B
  <2> QED BY <2>2
<1> HIDE DEF b
<1>5. ASSUME NEW m \in classes
      PROVE  /\ \A k \in 1..g[m] : b[m][k] \in Units(part(m))
             /\ \A k, l \in 1..g[m] : b[m][k] = b[m][l] => k = l
             /\ \A v \in Units(part(m)) : \E k \in 1..g[m] : b[m][k] = v
  <2> HIDE DEF g, part, classes
  <2> QED BY <1>4 DEF Bijection, Injection, Surjection, IsInjective
<1>6. ASSUME NEW m \in classes, NEW v \in Units(part(m))
      PROVE  v \in Units(f) /\ c[v[1]] = m
  <2>1. v = <<v[1], v[2]>> /\ v[1] \in DOMAIN part(m) /\ v[2] \in 1..part(m)[v[1]]
    <3> HIDE DEF part
    <3> QED BY UnitsAre
  <2>2. v[1] \in S /\ c[v[1]] = m /\ v[2] \in 1..f[v[1]]
    BY <2>1
  <2> QED BY <2>1, <2>2, UnitsAre
<1>7. ASSUME NEW v \in Units(f)
      PROVE  c[v[1]] \in classes /\ v \in Units(part(c[v[1]]))
  <2>1. v = <<v[1], v[2]>> /\ v[1] \in S /\ v[2] \in 1..f[v[1]]
    BY UnitsAre
  <2>2. v[1] \in DOMAIN part(c[v[1]]) /\ v[2] \in 1..part(c[v[1]])[v[1]]
    BY <2>1
  <2>3. <<v[1], v[2]>> \in Units(part(c[v[1]]))
    <3> HIDE DEF part
    <3> QED BY <2>2, UnitsAre
  <2> QED BY <2>1, <2>3
<1>8. \A u \in Units(g) : u = <<u[1], u[2]>> /\ u[1] \in classes /\ u[2] \in 1..g[u[1]]
  <2>1. DOMAIN g = classes
    OBVIOUS
  <2> HIDE DEF g, classes
  <2> QED BY <2>1, UnitsAre
<1>9. \A m \in classes : \A k \in 1..g[m] : <<m, k>> \in Units(g)
  <2>1. DOMAIN g = classes
    OBVIOUS
  <2> HIDE DEF g, classes
  <2> QED BY <2>1, UnitsAre
<1> HIDE DEF g, part, classes, B
<1>10. H \in [Units(g) -> Units(f)]
  <2> SUFFICES ASSUME NEW u \in Units(g) PROVE b[u[1]][u[2]] \in Units(f)
    OBVIOUS
  <2> QED BY <1>5, <1>6, <1>8
<1>11. \A u, v \in Units(g) : H[u] = H[v] => u = v
  <2> SUFFICES ASSUME NEW u \in Units(g), NEW v \in Units(g),
                      b[u[1]][u[2]] = b[v[1]][v[2]]
               PROVE  u = v
    OBVIOUS
  <2>1. u[1] = v[1]
    BY <1>5, <1>6, <1>8
  <2>2. u[2] = v[2]
    BY <1>5, <1>8, <2>1
  <2> QED BY <1>8, <2>1, <2>2
<1>12. \A v \in Units(f) : \E u \in Units(g) : H[u] = v
  <2> TAKE v \in Units(f)
  <2> DEFINE m == c[v[1]]
  <2>1. m \in classes /\ v \in Units(part(m))
    BY <1>7
  <2>2. PICK k \in 1..g[m] : b[m][k] = v
    BY <1>5, <2>1
  <2>3. <<m, k>> \in Units(g)
    BY <1>9, <2>1
  <2>4. H[<<m, k>>] = v
    BY <2>2, <2>3
  <2> QED BY <2>3, <2>4
<1> HIDE DEF H
<1>13. ExistsBijection(Units(g), Units(f))
  BY <1>10, <1>11, <1>12 DEF ExistsBijection, Bijection, Injection, Surjection, IsInjective
<1>14. IsFiniteSet(Units(g))
  BY <1>1, <1>3, UnitsFinite
<1>15. Cardinality(Units(f)) = Cardinality(Units(g))
  BY <1>13, <1>14, FS_Bijection
<1>16. Total(g) = Total(f)
  BY <1>15, UnitsAre
<1> QED BY <1>1, <1>3, <1>16 DEF g, part, classes, Parts

\* A sum of two sums.
LEMMA TotalPlus ==
  ASSUME NEW S, IsFiniteSet(S), NEW f \in [S -> Nat], NEW g \in [S -> Nat]
  PROVE  Total([x \in S |-> f[x] + g[x]]) = Total(f) + Total(g)
<1> DEFINE both == [x \in S |-> f[x] + g[x]]
           high == {u \in Units(both) : u[2] > f[u[1]]}
           H == [u \in Units(g) |-> <<u[1], f[u[1]] + u[2]>>]
<1>1. \A x \in S : f[x] \in Nat /\ g[x] \in Nat /\ both[x] = f[x] + g[x]
  OBVIOUS
<1>2. both \in [S -> Nat] /\ DOMAIN both = S
  OBVIOUS
<1> HIDE DEF both
<1>3. \A u \in Units(both) : u = <<u[1], u[2]>> /\ u[1] \in S /\ u[2] \in 1..both[u[1]]
  BY <1>2, UnitsAre
<1>4. \A x \in S : \A k \in 1..both[x] : <<x, k>> \in Units(both)
  BY <1>2, UnitsAre
<1>5. \A u \in Units(f) : u = <<u[1], u[2]>> /\ u[1] \in S /\ u[2] \in 1..f[u[1]]
  BY UnitsAre
<1>6. \A u \in Units(g) : u = <<u[1], u[2]>> /\ u[1] \in S /\ u[2] \in 1..g[u[1]]
  BY UnitsAre
<1>7. IsFiniteSet(Units(f)) /\ IsFiniteSet(Units(g)) /\ IsFiniteSet(Units(both))
  BY <1>2, UnitsFinite
<1>8. Units(both) = Units(f) \cup high
  <2>1. ASSUME NEW u \in Units(f) PROVE u \in Units(both)
    <3>1. u[1] \in S /\ u[2] \in 1..both[u[1]]
      BY <1>1, <1>5
    <3> QED BY <1>4, <1>5, <3>1
  <2>2. ASSUME NEW u \in Units(both), ~(u[2] > f[u[1]]) PROVE u \in Units(f)
    <3>1. u[1] \in S /\ u[2] \in 1..f[u[1]]
      BY <1>1, <1>3, <2>2
    <3> QED BY <1>3, <3>1, UnitsAre
  <2> QED BY <2>1, <2>2
<1>9. Units(f) \cap high = {}
  BY <1>1, <1>5
<1>10. H \in [Units(g) -> high]
  <2> SUFFICES ASSUME NEW u \in Units(g) PROVE <<u[1], f[u[1]] + u[2]>> \in high
    OBVIOUS
  <2>1. /\ u[1] \in S /\ f[u[1]] + u[2] \in 1..both[u[1]]
        /\ f[u[1]] + u[2] > f[u[1]]
    BY <1>1, <1>6
  <2> QED BY <1>4, <2>1
<1>11. \A u, v \in Units(g) : H[u] = H[v] => u = v
  <2> SUFFICES ASSUME NEW u \in Units(g), NEW v \in Units(g), H[u] = H[v] PROVE u = v
    OBVIOUS
  <2>1. u[1] = v[1] /\ f[u[1]] + u[2] = f[v[1]] + v[2]
    OBVIOUS
  <2>2. u[2] = v[2]
    BY <1>1, <1>6, <2>1
  <2> QED BY <1>6, <2>1, <2>2
<1>12. \A v \in high : \E u \in Units(g) : H[u] = v
  <2> TAKE v \in high
  <2> DEFINE u == <<v[1], v[2] - f[v[1]]>>
  <2>1. v[1] \in S /\ v[2] - f[v[1]] \in 1..g[v[1]] /\ f[v[1]] + (v[2] - f[v[1]]) = v[2]
    BY <1>1, <1>3
  <2>2. u \in Units(g)
    BY <2>1, UnitsAre
  <2>3. H[u] = v
    BY <1>3, <2>1, <2>2
  <2> QED BY <2>2, <2>3
<1> HIDE DEF H, high
<1>13. ExistsBijection(Units(g), high)
  BY <1>10, <1>11, <1>12 DEF ExistsBijection, Bijection, Injection, Surjection, IsInjective
<1>14. IsFiniteSet(high) /\ Cardinality(high) = Cardinality(Units(g))
  BY <1>7, <1>13, FS_Bijection
<1>15. Cardinality(Units(both)) = Cardinality(Units(f)) + Cardinality(high) - Cardinality({})
  BY <1>7, <1>8, <1>9, <1>14, FS_Union
<1>16. Total(both) = Total(f) + Total(g)
  <2>1. Cardinality({}) = 0
    BY FS_EmptySet
  <2>2. /\ Total(both) = Cardinality(Units(both)) /\ Total(f) = Cardinality(Units(f))
        /\ Total(g) = Cardinality(Units(g))
    BY UnitsAre
  <2>3. Total(f) \in Nat /\ Total(g) \in Nat
    BY UnitsFinite
  <2> QED BY <1>14, <1>15, <2>1, <2>2, <2>3
<1> QED BY <1>16 DEF both

-----------------------------------------------------------------------------
(* The summary                                                             *)

\* The rows of a run are finitely many, of natural numbers of tokens, and
\* answer one to one to the completions that were returned.
LEMMA RowsOfRun ==
  ASSUME IInv, Billing, NEW r \in Runs
  PROVE  LET rows   == OfRun(token_usage, r)
             billed == {reply \in replied : reply.run = r}
         IN /\ IsFiniteSet(rows)
            /\ [row \in rows |-> ReplyOf(row)] \in Bijection(rows, billed)
            /\ \A row \in rows : row.tokens.prompt \in Nat /\ row.tokens.completion \in Nat
            /\ \A reply \in billed :
                 reply.tokens.prompt \in Nat /\ reply.tokens.completion \in Nat
<1> DEFINE rows == OfRun(token_usage, r)
           billed == {reply \in replied : reply.run = r}
           h == [row \in rows |-> ReplyOf(row)]
<1>1. token_usage \subseteq Rows /\ replied \subseteq Replies
  BY DEF IInv, Types
<1>2. IsFiniteSet(rows)
  <2>1. PICK n \in Nat : {row.seq : row \in rows} = 1..n
    BY DEF IInv, CommittedDense, Dense, Seqs
  <2>2. \A a, b \in rows : a.seq = b.seq => a = b
    BY DEF IInv, CommittedDense, Dense
  <2> DEFINE q == [row \in rows |-> row.seq]
  <2> HIDE DEF rows
  <2>3. q \in Injection(rows, 1..n)
    BY <2>1, <2>2 DEF Injection, IsInjective
  <2>4. IsFiniteSet(1..n)
    <3>1. 1 \in Int /\ n \in Int
      OBVIOUS
    <3> QED BY <3>1, FS_Interval
  <2> HIDE DEF q
  <2> QED BY <2>3, <2>4, FS_Injection
<1>3. \A row \in rows : ReplyOf(row).run = r /\ ReplyOf(row).call = row.call
  BY DEF ReplyOf, OfRun
<1>4. billed = {ReplyOf(row) : row \in rows}
  BY <1>3 DEF Billing, RowsAreReplies, ReplyOf, OfRun
<1>5. \A a, b \in rows : a.call = b.call => a = b
  <2> SUFFICES ASSUME NEW a \in rows, NEW b \in rows, a.call = b.call PROVE a = b
    OBVIOUS
  <2>1. PICK s \in Sessions : TRUE
    BY <1>1 DEF Rows, OfRun
  <2>2. a \in Visible(s) /\ b \in Visible(s)
    BY DEF Visible, OfRun
  <2> QED BY <2>2 DEF Billing, OneRowPerCall
<1>6. h \in Bijection(rows, billed)
  <2> HIDE DEF rows, billed
  <2>1. h \in [rows -> billed]
    BY <1>4
  <2>2. \A a, b \in rows : h[a] = h[b] => a = b
    <3> SUFFICES ASSUME NEW a \in rows, NEW b \in rows, ReplyOf(a) = ReplyOf(b) PROVE a = b
      OBVIOUS
    <3> QED BY <1>3, <1>5
  <2>3. \A y \in billed : \E a \in rows : h[a] = y
    BY <1>4
  <2> HIDE DEF h
  <2> QED BY <2>1, <2>2, <2>3 DEF Bijection, Injection, Surjection, IsInjective
<1>7. \A row \in rows : row.tokens.prompt \in Nat /\ row.tokens.completion \in Nat
  BY <1>1, TokenUsageAssumption DEF Rows, OfRun
<1>8. \A reply \in billed : reply.tokens.prompt \in Nat /\ reply.tokens.completion \in Nat
  BY <1>1, TokenUsageAssumption DEF Replies
<1> QED BY <1>2, <1>6, <1>7, <1>8

\* One kind of tokens, over all rows and model by model.
LEMMA SumsAgree ==
  ASSUME NEW rows, IsFiniteSet(rows), NEW billed, NEW h \in Bijection(rows, billed),
         \A row \in rows : h[row] = ReplyOf(row),
         NEW which, \A row \in rows : row.tokens[which] \in Nat,
         \A reply \in billed : reply.tokens[which] \in Nat
  PROVE  LET models == {row.model : row \in rows}
             g == [m \in models |-> Sum({row \in rows : row.model = m}, which)]
         IN /\ Sum(rows, which) = Sum(billed, which)
            /\ IsFiniteSet(models) /\ g \in [models -> Nat]
            /\ Total(g) = Sum(rows, which)
<1> DEFINE f == [row \in rows |-> row.tokens[which]]
           e == [reply \in billed |-> reply.tokens[which]]
<1>1. f \in [rows -> Nat] /\ e \in [billed -> Nat]
  OBVIOUS
<1>2. \A row \in rows : e[h[row]] = f[row]
  <2>1. \A row \in rows : h[row] \in billed /\ h[row].tokens = row.tokens
    BY DEF Bijection, Injection, ReplyOf
  <2> QED BY <2>1
<1>3. Total(f) = Total(e)
  <2> HIDE DEF f, e
  <2> QED BY <1>1, <1>2, TotalsEqual
<1>4. Sum(rows, which) = Total(f) /\ Sum(billed, which) = Total(e)
  BY DEF Sum
<1> DEFINE c == [row \in rows |-> row.model]
           models == {row.model : row \in rows}
           g == [m \in models |-> Sum({row \in rows : row.model = m}, which)]
<1>5. /\ IsFiniteSet(Classes(rows, c)) /\ Parts(rows, f, c) \in [Classes(rows, c) -> Nat]
      /\ Total(Parts(rows, f, c)) = Total(f)
  <2> HIDE DEF f, c
  <2> QED BY <1>1, TotalByClass
<1>6. Classes(rows, c) = models
  BY DEF Classes
<1>7. ASSUME NEW m \in models
      PROVE  Sum({row \in rows : row.model = m}, which) = Total(Part(rows, f, c, m))
  <2>1. {y \in rows : c[y] = m} = {row \in rows : row.model = m}
    OBVIOUS
  <2>2. Part(rows, f, c, m) = [row \in {row \in rows : row.model = m} |-> row.tokens[which]]
    BY <2>1 DEF Part
  <2> QED BY <2>2 DEF Sum
<1>8. g = Parts(rows, f, c)
  <2> HIDE DEF f, c
  <2> QED BY <1>6, <1>7 DEF Parts
<1> HIDE DEF f, c, e
<1> QED BY <1>3, <1>4, <1>5, <1>6, <1>8

OfModel(entries, m) == {entry \in entries : entry.model = m}

LEMMA CallsAgree ==
  ASSUME NEW rows, IsFiniteSet(rows), NEW billed, NEW h \in Bijection(rows, billed),
         \A row \in rows : h[row] = ReplyOf(row), NEW m
  PROVE  Cardinality(OfModel(rows, m)) = Cardinality(OfModel(billed, m))
<1> USE DEF OfModel
<1> DEFINE of == OfModel(rows, m)
           bills == OfModel(billed, m)
           k == [row \in of |-> h[row]]
<1>1. /\ \A a \in rows : h[a] \in billed /\ h[a].model = a.model
      /\ \A a, b \in rows : h[a] = h[b] => a = b
      /\ \A y \in billed : \E a \in rows : h[a] = y
  BY DEF Bijection, Injection, Surjection, IsInjective, ReplyOf
<1>2. k \in [of -> bills] /\ \A a, b \in of : k[a] = k[b] => a = b
  BY <1>1
<1>3. \A y \in bills : \E a \in of : k[a] = y
  BY <1>1
<1>4. IsFiniteSet(of)
  BY FS_Subset
<1> HIDE DEF k, of, bills
<1>5. ExistsBijection(of, bills)
  BY <1>2, <1>3 DEF ExistsBijection, Bijection, Injection, Surjection, IsInjective
<1>6. Cardinality(of) = Cardinality(bills)
  BY <1>4, <1>5, FS_Bijection
<1> QED BY <1>6 DEF of, bills

LEMMA SummaryIsRight ==
  ASSUME IInv, Billing, NEW r \in Runs
  PROVE  LET billed  == {reply \in replied : reply.run = r}
             summary == Summarize(r)
             sums(which) == Total([m \in DOMAIN summary.by_model |->
                                     summary.by_model[m].totals[which]])
         IN /\ summary.totals = Totals(billed)
            /\ \A m \in DOMAIN summary.by_model :
                 summary.by_model[m].calls = Cardinality({reply \in billed : reply.model = m})
            /\ \A which \in {"prompt", "completion", "total"} :
                 sums(which) = summary.totals[which]
<1> DEFINE rows == OfRun(token_usage, r)
           billed == {reply \in replied : reply.run = r}
           h == [row \in rows |-> ReplyOf(row)]
           models == {row.model : row \in rows}
           of(m) == {row \in rows : row.model = m}
           g(which) == [m \in models |-> Sum(of(m), which)]
           by == [m \in models |-> [totals |-> Totals(of(m)), calls |-> Cardinality(of(m))]]
           summary == Summarize(r)
           of_all(which) == [m \in models |-> by[m].totals[which]]
<1>1. /\ IsFiniteSet(rows) /\ h \in Bijection(rows, billed)
      /\ \A row \in rows : row.tokens.prompt \in Nat /\ row.tokens.completion \in Nat
      /\ \A reply \in billed : reply.tokens.prompt \in Nat /\ reply.tokens.completion \in Nat
  BY RowsOfRun
<1>2. \A row \in rows : h[row] = ReplyOf(row)
  OBVIOUS
<1>3. summary.totals = Totals(rows) /\ summary.by_model = by
  BY DEF Summarize
<1>4. DOMAIN by = models /\ \A m \in models : by[m].totals = Totals(of(m))
  OBVIOUS
<1>5. \A m \in models : by[m].calls = Cardinality(of(m))
  OBVIOUS
<1> HIDE DEF rows, billed, h
<1>6. /\ Sum(rows, "prompt") = Sum(billed, "prompt") /\ IsFiniteSet(models)
      /\ g("prompt") \in [models -> Nat] /\ Total(g("prompt")) = Sum(rows, "prompt")
  <2>1. /\ \A row \in rows : row.tokens.prompt \in Nat
        /\ \A reply \in billed : reply.tokens.prompt \in Nat
    BY <1>1, Zenon
  <2> QED BY <1>1, <1>2, <2>1, SumsAgree, ZenonT(60)
<1>7. /\ Sum(rows, "completion") = Sum(billed, "completion")
      /\ g("completion") \in [models -> Nat]
      /\ Total(g("completion")) = Sum(rows, "completion")
  <2>1. /\ \A row \in rows : row.tokens.completion \in Nat
        /\ \A reply \in billed : reply.tokens.completion \in Nat
    BY <1>1, Zenon
  <2> QED BY <1>1, <1>2, <2>1, SumsAgree, ZenonT(60)
<1> HIDE DEF models, of
<1>8. \A m \in models :
        /\ by[m].totals.prompt = g("prompt")[m]
        /\ by[m].totals.completion = g("completion")[m]
        /\ by[m].totals.total = g("prompt")[m] + g("completion")[m]
  BY <1>4 DEF Totals
<1> HIDE DEF g, by, summary
<1>9. Totals(rows) = Totals(billed)
  BY <1>6, <1>7 DEF Totals
<1>10. of_all("prompt") = g("prompt") /\ of_all("completion") = g("completion")
  BY <1>6, <1>7, <1>8
<1>11. Total(of_all("total")) = Total(g("prompt")) + Total(g("completion"))
  <2>1. of_all("total") = [m \in models |-> g("prompt")[m] + g("completion")[m]]
    BY <1>8
  <2> HIDE DEF of_all
  <2> QED BY <1>6, <1>7, <2>1, TotalPlus
<1>12. /\ Totals(rows).prompt = Sum(rows, "prompt")
       /\ Totals(rows).completion = Sum(rows, "completion")
       /\ Totals(rows).total = Sum(rows, "prompt") + Sum(rows, "completion")
  BY DEF Totals
<1>13. \A which \in {"prompt", "completion", "total"} : Total(of_all(which)) = Totals(rows)[which]
  <2> HIDE DEF of_all
  <2> QED BY <1>6, <1>7, <1>10, <1>11, <1>12
<1>14. \A m \in models : by[m].calls = Cardinality({reply \in billed : reply.model = m})
  <2> TAKE m \in models
  <2>1. Cardinality(OfModel(rows, m)) = Cardinality(OfModel(billed, m))
    BY <1>1, <1>2, CallsAgree
  <2>2. by[m].calls = Cardinality(of(m))
    BY <1>5
  <2> QED BY <2>1, <2>2 DEF of, OfModel
<1>15. \A which \in {"prompt", "completion", "total"} :
         Total([m \in DOMAIN summary.by_model |-> summary.by_model[m].totals[which]])
           = summary.totals[which]
  BY <1>3, <1>4, <1>13
<1>16. summary.totals = Totals(billed)
  BY <1>3, <1>9
<1>17. \A m \in DOMAIN summary.by_model :
         summary.by_model[m].calls = Cardinality({reply \in billed : reply.model = m})
  BY <1>3, <1>4, <1>14
<1> QED BY <1>15, <1>16, <1>17 DEF summary, billed

(***************************************************************************)
(* summarize() bills the completions that complete() returned and whose    *)
(* transactions were committed, each once and under its model: a row and a *)
(* reply are of one call, and a rolled back call has neither.              *)
(***************************************************************************)
THEOREM SummaryBillsRepliesHolds == Spec => []SummaryBillsReplies
<1>1. Init => IInv /\ Billing
  BY InitIInv, InitBilling
<1>2. IInv /\ Billing /\ [Next]_vars => (IInv /\ Billing)'
  BY NextIInv, NextBilling
<1>3. IInv /\ Billing => SummaryBillsReplies
  BY SummaryIsRight DEF SummaryBillsReplies
<1> QED BY <1>1, <1>2, <1>3, PTL DEF Spec
=============================================================================
