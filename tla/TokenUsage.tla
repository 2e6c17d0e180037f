----------------------------- MODULE TokenUsage -----------------------------
(***************************************************************************)
(* ModelRouter.complete and TokenUsageRepositoryImpl: a completion is      *)
(* asked of a provider and its tokens become a row of token_usage, with    *)
(* the next seq of the run. Unlike RunEventRepositoryImpl.append this one  *)
(* takes no lock but FOR UPDATE. Each session is one transaction at a      *)
(* time; its owner may ask for several completions, then commits.          *)
(***************************************************************************)
EXTENDS Naturals, FiniteSets, FiniteSetsExt

CONSTANTS
  Runs,      \* run identifiers
  Sessions,  \* database sessions, each with a router of its own
  Providers, \* registered providers: a name to the model it reports
  Default,   \* the name of the default provider
  Tokens,    \* prompt and completion tokens that a provider may report
  MaxCalls,  \* bound: completions asked for in one session
  None       \* no run id, no provider named, no completion

\* TokenUsage refuses negative counts.
ASSUME TokenUsageAssumption ==
  /\ Default \in DOMAIN Providers
  /\ \A tokens \in Tokens : tokens.prompt \in Nat /\ tokens.completion \in Nat

VARIABLES
  token_usage, \* committed rows
  tx,          \* tx[s]: the open transaction of session s
  replied      \* completions that complete() returned and whose transaction
               \* was committed

vars == <<token_usage, tx, replied>>

\* at: where complete() is; reply: the completion in hand; base: the maximum
\* that was read; locks: the runs whose rows are held; rows, replies: what
\* the transaction wrote and returned; calls: completions asked for.
NoTx(calls) ==
  [at |-> "idle", run |-> None, model |-> None, reply |-> None, base |-> 0,
   locks |-> {}, rows |-> {}, replies |-> {}, calls |-> calls]

Init ==
  /\ token_usage = {}
  /\ tx = [s \in Sessions |-> NoTx(0)]
  /\ replied = {}

OfRun(rows, r) == {row \in rows : row.run = r}

Visible(s) == token_usage \cup tx[s].rows

-----------------------------------------------------------------------------
(* ModelRouter.complete                                                    *)

\* An unknown provider raises before anything has happened.
Complete(s, name, r) ==
  LET selected == IF name = None THEN Default ELSE name IN
  /\ tx[s].at = "idle" /\ tx[s].calls < MaxCalls
  /\ selected \in DOMAIN Providers
  /\ tx' = [tx EXCEPT ![s].at = "model", ![s].run = r, ![s].model = Providers[selected],
                      ![s].calls = @ + 1]
  /\ UNCHANGED <<token_usage, replied>>

Forget(s) == [tx[s] EXCEPT !.at = "idle", !.run = None, !.model = None, !.reply = None,
                           !.base = 0]

\* The provider answers. Without a run id the answer is dropped and
\* MissingRunIdError raised.
Answer(s, tokens) ==
  /\ tx[s].at = "model"
  /\ tx' = [tx EXCEPT ![s] =
              IF tx[s].run = None THEN Forget(s)
              ELSE [tx[s] EXCEPT !.at = "max",
                      !.reply = [call |-> <<s, tx[s].calls>>, run |-> tx[s].run,
                                 model |-> tx[s].model, tokens |-> tokens]]]
  /\ UNCHANGED <<token_usage, replied>>

ProviderRaises(s) ==
  /\ tx[s].at = "model"
  /\ tx' = [tx EXCEPT ![s] = Forget(s)]
  /\ UNCHANGED <<token_usage, replied>>

-----------------------------------------------------------------------------
(* TokenUsageRepositoryImpl.append                                         *)

\* _compute_next_seq: the snapshot of SELECT ... FOR UPDATE.
ComputeNextSeq(s) ==
  LET seqs == {row.seq : row \in OfRun(Visible(s), tx[s].run)} IN
  /\ tx[s].at = "max"
  /\ tx' = [tx EXCEPT ![s].base = Max({0} \cup seqs), ![s].at = "lock"]
  /\ UNCHANGED <<token_usage, replied>>

\* It waits for whoever holds one of those rows, and the maximum stays the one
\* of the snapshot. Rows that nobody else can see are held anyway.
LockRows(s) ==
  LET r == tx[s].run
      held == IF OfRun(token_usage, r) # {} /\ tx[s].base > 0 THEN {r} ELSE {}
  IN
  /\ tx[s].at = "lock"
  /\ \A t \in Sessions \ {s} : held \cap tx[t].locks = {}
  /\ tx' = [tx EXCEPT ![s].locks = @ \cup held, ![s].at = "insert"]
  /\ UNCHANGED <<token_usage, replied>>

Row(s) ==
  [run |-> tx[s].run, seq |-> tx[s].base + 1, model |-> tx[s].model,
   tokens |-> tx[s].reply.tokens, call |-> tx[s].reply.call]

SameKey(a, b) == a.run = b.run /\ a.seq = b.seq

\* Mutant: no UNIQUE(run_id, seq).
TakenUnchecked(s, rows) == FALSE

\* UNIQUE(run_id, seq).
Taken(s, rows) ==
  \E row \in rows : SameKey(row, Row(s))

\* An INSERT waits for the transaction that holds the key.
MayInsert(s) ==
  tx[s].at = "insert" /\ \A t \in Sessions \ {s} : ~Taken(s, tx[t].rows)

\* The row is flushed and complete() returns the completion.
Insert(s) ==
  /\ MayInsert(s) /\ ~Taken(s, Visible(s))
  /\ tx' = [tx EXCEPT ![s] = [Forget(s) EXCEPT !.rows = @ \cup {Row(s)},
                                               !.replies = @ \cup {tx[s].reply}]]
  /\ UNCHANGED <<token_usage, replied>>

\* Mutant: the caller gets the completion although the row was refused, and
\* the transaction goes on.
InsertRefusedSilently(s) ==
  /\ MayInsert(s) /\ Taken(s, Visible(s))
  /\ tx' = [tx EXCEPT ![s] = [Forget(s) EXCEPT !.replies = @ \cup {tx[s].reply}]]
  /\ UNCHANGED <<token_usage, replied>>

\* IntegrityError out of complete(): the completion is lost, and the
\* transaction can only be rolled back.
InsertRefused(s) ==
  /\ MayInsert(s) /\ Taken(s, Visible(s))
  /\ tx' = [tx EXCEPT ![s] = [Forget(s) EXCEPT !.at = "failed"]]
  /\ UNCHANGED <<token_usage, replied>>

-----------------------------------------------------------------------------
(* The owner of the session                                                *)

Commit(s) ==
  /\ tx[s].at = "idle" /\ tx[s] # NoTx(tx[s].calls)
  /\ token_usage' = token_usage \cup tx[s].rows
  /\ replied' = replied \cup tx[s].replies
  /\ tx' = [tx EXCEPT ![s] = NoTx(tx[s].calls)]

\* Also a cancelled request, a deadlock victim, a dead process.
Rollback(s) ==
  /\ tx[s] # NoTx(tx[s].calls)
  /\ tx' = [tx EXCEPT ![s] = NoTx(tx[s].calls)]
  /\ UNCHANGED <<token_usage, replied>>

Next ==
  \E s \in Sessions :
    \/ \E name \in DOMAIN Providers \cup {None}, r \in Runs \cup {None} : Complete(s, name, r)
    \/ \E tokens \in Tokens : Answer(s, tokens)
    \/ ProviderRaises(s)
    \/ ComputeNextSeq(s) \/ LockRows(s) \/ Insert(s) \/ InsertRefused(s)
    \/ Commit(s) \/ Rollback(s)

Spec == Init /\ [][Next]_vars

-----------------------------------------------------------------------------
(* summarize()                                                             *)

\* The sum of the values of a function: its units, counted.
Total(f) == Cardinality(UNION {{x} \X (1..f[x]) : x \in DOMAIN f})

Sum(rows, which) == Total([row \in rows |-> row.tokens[which]])

Totals(rows) ==
  LET prompt == Sum(rows, "prompt")
      completion == Sum(rows, "completion")
  IN [prompt |-> prompt, completion |-> completion, total |-> prompt + completion]

\* Totals, and a rollup for each model with the number of its calls.
Summarize(r) ==
  LET rows == OfRun(token_usage, r)
      of(m) == {row \in rows : row.model = m}
  IN [ totals   |-> Totals(rows),
       by_model |-> [m \in {row.model : row \in rows} |->
                       [totals |-> Totals(of(m)), calls |-> Cardinality(of(m))]] ]

-----------------------------------------------------------------------------
(* Properties                                                              *)

(***************************************************************************)
(* The seqs of a run are 1 to n, one row each, although two first calls of *)
(* a run lock nothing and a call that waited computes its seq from before  *)
(* the wait: the constraint refuses what the lock lets through.            *)
(***************************************************************************)
UsageDense ==
  \A r \in Runs :
    LET rows == OfRun(token_usage, r)
    IN {row.seq : row \in rows} = 1..Cardinality(rows)

(***************************************************************************)
(* The summary of a run bills what its callers got: the completions that   *)
(* were returned in committed transactions, each once, under the model     *)
(* that made it; the rollups add up to the totals.                         *)
(***************************************************************************)
SummaryBillsReplies ==
  \A r \in Runs :
    LET billed  == {reply \in replied : reply.run = r}
        summary == Summarize(r)
        sums(which) == Total([m \in DOMAIN summary.by_model |->
                                summary.by_model[m].totals[which]])
    IN /\ summary.totals = Totals(billed)
       /\ \A m \in DOMAIN summary.by_model :
            summary.by_model[m].calls = Cardinality({reply \in billed : reply.model = m})
       /\ \A which \in {"prompt", "completion", "total"} : sums(which) = summary.totals[which]
=============================================================================
