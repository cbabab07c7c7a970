--------------------------- MODULE MCProblemStore ---------------------------
(* Instances of ProblemStore for TLC. *)
EXTENDS ProblemStore, TLC

(* Test cases and every tag, or the one that TypeScript's key lets in. *)
MCEarlier ==
  [rust |-> {Tags \cup CaseIds}, ts |-> {{t} \cup CaseIds : t \in Tags}]

(* The limit and tags, none twice, or a tag alone. *)
MCPatches ==
  [sets : {{Limit}}, tags : {t \in Lists : Len(t) = Cardinality({t[i] : i \in DOMAIN t})}] \cup [sets : {{}}, tags : [{1} -> Tags]]

StoreSymmetry == Permutations(Requests) \cup Permutations(Tags)
=============================================================================
