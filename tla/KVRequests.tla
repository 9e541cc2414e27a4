----------------------------- MODULE KVRequests -----------------------------
(***************************************************************************)
(* The calls of a key/value store (store/store.go, interface KVStore) and  *)
(* what they read of its contents, a function of the keys that are stored. *)
(* Contains, Size, Keys, ForEachKey and ForEachValue are Get or ForEach    *)
(* here: they return less of what these read.                              *)
(***************************************************************************)
EXTENDS Integers

CONSTANTS Keys,         \* numbered in the order of the store
          Values

Contents == UNION {[ks -> Values] : ks \in SUBSET Keys}
Nothing == [k \in {} |-> k]
Only(s, ks) == [k \in DOMAIN s \cap ks |-> s[k]]
Update(s, key, value) ==
    [k \in DOMAIN s \cup {key} |-> IF k = key THEN value ELSE s[k]]
Remove(s, key) == [k \in DOMAIN s \ {key} |-> s[k]]

Requests ==
    [op : {"Get", "Delete"}, key : Keys]
        \cup [op : {"Set"}, key : Keys, value : Values]
        \cup [op : {"ForEach"}]
        \cup [op : {"Find"}, matching : SUBSET Values]
IsRead(r) == r.op \in {"Get", "ForEach", "Find"}

(* Find stops at the first match.                                          *)
Matches(s, r) == {k \in DOMAIN s : s[k] \in r.matching}
FirstMatch(s, r) == {k \in Matches(s, r) : \A j \in Matches(s, r) : k <= j}
Found(s, r) ==
    CASE r.op = "Get"     -> Only(s, {r.key})
      [] r.op = "ForEach" -> s
      [] r.op = "Find"    -> Only(s, FirstMatch(s, r))

=============================================================================
