------------------------------ MODULE Ruleset ------------------------------
(***************************************************************************)
(* The messages that a program puts into its batch for tables, chains and  *)
(* rules, and what the kernel (external) makes of them: tables of chains   *)
(* of rules, changed by a whole batch or not at all, and run on packets.   *)
(***************************************************************************)
EXTENDS Nftables

(* Batch::add of a table, of a chain (Chain::add_to_batch) and of a rule   *)
(* (Rule::add_to_batch): the message type and the flags that decide what   *)
(* the kernel does with it.                                                *)
TableMsg(op, table) == [op |-> op, obj |-> "table", table |-> table]

ChainMsg(table, name, hook, policy) ==
  [op |-> "Add", obj |-> "chain", table |-> table, chain |-> name, hook |-> hook, policy |-> policy]

(* Mutant: the flags of every other object, NLM_F_CREATE alone.            *)
rule_get_add_flags_create == {"NLM_F_CREATE"}

rule_get_add_flags == {"NLM_F_CREATE", "NLM_F_APPEND"}

RuleMsg(table, chain, exprs) ==
  [op |-> "Add", obj |-> "rule", table |-> table, chain |-> chain, exprs |-> exprs,
   flags |-> rule_get_add_flags]

-----------------------------------------------------------------------------
(* The ruleset: a function from the names of the tables to functions from  *)
(* the names of their chains to [hook, policy, rules]; a rule has its      *)
(* expressions and the value of its counter.                               *)
EmptyRuleset == << >>

AddTable(k, m) == [t \in DOMAIN k \cup {m.table} |-> IF t \in DOMAIN k THEN k[t] ELSE << >>]

DelTable(k, m) == [t \in DOMAIN k \ {m.table} |-> k[t]]

(* A chain that exists takes the new policy and keeps its rules.           *)
AddChain(k, m) ==
  LET chains == k[m.table]
      rules == IF m.chain \in DOMAIN chains THEN chains[m.chain].rules ELSE << >>
  IN [k EXCEPT ![m.table] = [c \in DOMAIN chains \cup {m.chain} |->
                               IF c = m.chain THEN [hook |-> m.hook, policy |-> m.policy, rules |-> rules]
                               ELSE chains[c]]]

(* A rule goes to the end of its chain with NLM_F_APPEND, else in front.   *)
AddRule(k, m) ==
  LET new == <<[exprs |-> m.exprs, counter |-> 0]>>
  IN [k EXCEPT ![m.table][m.chain].rules = IF "NLM_F_APPEND" \in m.flags THEN @ \o new ELSE new \o @]

(* Every message but the one that adds a table needs its table.            *)
Apply(k, m) ==
  CASE m.obj = "table" /\ m.op = "Add" -> AddTable(k, m)
    [] m.obj = "table" /\ m.op = "Del" -> DelTable(k, m)
    [] m.obj = "chain" -> AddChain(k, m)
    [] m.obj = "rule" -> AddRule(k, m)

Commit(k, msgs) ==
  LET after[i \in 0..Len(msgs)] == IF i = 0 THEN k ELSE Apply(after[i - 1], msgs[i])
  IN after[Len(msgs)]

-----------------------------------------------------------------------------
(* A packet in a chain: rule after rule until one has a verdict, else the  *)
(* policy.  The result has the verdict, what was logged and the rules with *)
(* their counters.                                                         *)
RunRule(s, rule, p) ==
  IF s.verdict # "Continue" THEN [s EXCEPT !.rules = Append(@, rule)]
  ELSE LET m == Evaluate(rule.exprs, p, << >>)
       IN [verdict |-> IF m.verdict \in {"Accept", "Drop"} THEN m.verdict ELSE "Continue",
           logs |-> s.logs \o m.logs,
           rules |-> Append(s.rules, [rule EXCEPT !.counter = @ + m.counted])]

RunRules(rules, p) ==
  LET state[i \in 0..Len(rules)] == IF i = 0 THEN [verdict |-> "Continue", logs |-> << >>, rules |-> << >>]
                                    ELSE RunRule(state[i - 1], rules[i], p)
  IN state[Len(rules)]

RunChain(chain, p) ==
  [RunRules(chain.rules, p) EXCEPT !.verdict = IF @ = "Continue" THEN chain.policy ELSE @]

(* The chains of a table on a hook.                                        *)
Hooked(k, table, hook) == {c \in DOMAIN k[table] : k[table][c].hook = hook}

(* A packet at a hook: the counters that it leaves behind in every table.  *)
Traverse(k, hook, p) ==
  [t \in DOMAIN k |-> [c \in DOMAIN k[t] |->
     IF c \in Hooked(k, t, hook) THEN [k[t][c] EXCEPT !.rules = RunChain(k[t][c], p).rules] ELSE k[t][c]]]

(* The packet passes a hook when every chain there accepts it.             *)
Passes(k, hook, p) ==
  \A t \in DOMAIN k : \A c \in Hooked(k, t, hook) : RunChain(k[t][c], p).verdict = "Accept"

=============================================================================
