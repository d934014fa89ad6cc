------------------------------- MODULE LockKeys -------------------------------
(***************************************************************************)
(* Keys and requests of with-lock.  A key is a path in an app's state tree *)
(* and stands for itself and everything below it.  Keys are compared only  *)
(* by key_prefix, so a key is an element of a set with that relation.      *)
(***************************************************************************)

CONSTANTS Keys,     \* absolute keys
          Prefix,   \* pairs <<k, l>>: k is l or an ancestor of l
          KeySets   \* the key sets that requests name

Modes == {"shared", "exclusive"}

\* canonicalize: non-empty, and no key of a request covers another.
Canonical(K) == K # {} /\ \A k, l \in K : <<k, l>> \in Prefix => k = l

Requests == [mode : Modes, keys : KeySets]

ASSUME PrefixAssumption ==
    /\ Prefix \subseteq Keys \X Keys
    /\ \A k \in Keys : <<k, k>> \in Prefix

\* Keys are paths: the ancestors of a key are ordered, and theirs are its own.
ASSUME TreeAssumption == \A k, l, m \in Keys : <<l, m>> \in Prefix =>
    /\ <<k, l>> \in Prefix => <<k, m>> \in Prefix
    /\ <<k, m>> \in Prefix => <<k, l>> \in Prefix \/ <<l, k>> \in Prefix

ASSUME KeySetsAssumption == KeySets \subseteq {K \in SUBSET Keys : Canonical(K)}

Overlap(k, l) == <<k, l>> \in Prefix \/ <<l, k>> \in Prefix

Compat(m, n) == m = "shared" /\ n = "shared"

\* a and b are requests, holds or tickets.
Conflicts(a, b) ==
    ~Compat(a.mode, b.mode) /\ \E k \in a.keys, l \in b.keys : Overlap(k, l)

(* Own holds H, by id, against a request.  A home lets neither an upgrade  *)
(* of a shared hold nor a covered request through to the table.            *)

Above(H, k) == {i \in DOMAIN H : \E l \in H[i].keys : <<l, k>> \in Prefix}

Upgrades(H, r) ==
    /\ r.mode = "exclusive"
    /\ \E k \in r.keys : /\ Above(H, k) # {}
                         /\ \A i \in Above(H, k) : H[i].mode = "shared"

Covers(H, i, r, k) ==
    i \in Above(H, k) /\ (H[i].mode = "exclusive" \/ r.mode = "shared")

Covered(H, r) == \A k \in r.keys : \E i \in DOMAIN H : Covers(H, i, r, k)

=============================================================================
