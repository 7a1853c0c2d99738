---------------------------- MODULE Enumeration ----------------------------
(***************************************************************************)
(* Listing the KEM keys: list_all_keys cuts pages by offset out of a       *)
(* sorted list of the live keys, while keys are added, removed and expire  *)
(* between two pages.  Handles are numbers, for their order.               *)
(***************************************************************************)
EXTENDS Naturals, Sequences, FiniteSets, Functions

CONSTANTS
  KeyHandle,    \* the handles that will be drawn
  Lifespan,
  Limit,        \* the page sizes clients of the KPS ask for
  DefaultEnumerateLimit, \* the one the WSD asks for
  Horizon       \* bound on the clock

ASSUME EnumerationAssumption ==
  /\ KeyHandle \subseteq Nat
  /\ Lifespan \subseteq Nat \ {0}
  /\ Limit \subseteq Nat
  /\ DefaultEnumerateLimit \in Nat \ {0}

VARIABLES
  now,
  made, keys,               \* records not yet added, and the registry
  created_at, delete_after, \* 0 while the handle has not been drawn
  scan,                     \* "none", "paging", "done", or "listed" by the WSD
  limit, seen,              \* the page size, and what the pages returned
  atStart,                  \* history: the live keys when the scan began,
  came, gone                \* those that became live since, and that ceased to be

registry == <<made, created_at, delete_after>>
scanVars == <<scan, limit, seen, atStart>>
vars == <<now, registry, keys, scanVars, came, gone>>

Init ==
  /\ now = 0
  /\ made = {}
  /\ keys = {}
  /\ created_at = [h \in KeyHandle |-> 0]
  /\ delete_after = [h \in KeyHandle |-> 0]
  /\ scan = "none"
  /\ limit = 0
  /\ seen = <<>>
  /\ atStart = {}
  /\ came = {}
  /\ gone = {}

Live == {h \in keys : delete_after[h] > now}

-----------------------------------------------------------------------------
Before(g, h) ==
  \/ created_at[g] < created_at[h]
  \/ created_at[g] = created_at[h] /\ g < h

(* Mutant: the page ends before its last key.                              *)
PageShort(refs, offset, n) ==
  LET last == IF offset + n <= Len(refs) THEN offset + n - 1 ELSE Len(refs)
  IN SubSeq(refs, offset + 1, last)

Page(refs, offset, n) ==
  LET last == IF offset + n < Len(refs) THEN offset + n ELSE Len(refs)
  IN SubSeq(refs, offset + 1, last)

(* The sort_by of list_all_keys.                                           *)
Sorted(S) ==
  CHOOSE refs \in Bijection(1 .. Cardinality(S), S) :
    \A i, j \in DOMAIN refs : i < j => Before(refs[i], refs[j])

(* Mutant: without the sort, the map's own order may differ between pages. *)
ListAllKeysUnsorted(offset, n) ==
  LET refs == Sorted(Live)
      reversed == [i \in DOMAIN refs |-> refs[Len(refs) + 1 - i]]
  IN Page(IF offset = 0 THEN refs ELSE reversed, offset, n)

(* list_all_keys: skip(offset), take(n) of the sorted live keys.           *)
ListAllKeys(offset, n) == Page(Sorted(Live), offset, n)

(* Mutant: a page that leaves one key announces no other page.             *)
HasMoreButOne(offset, count) == offset + count + 1 < Cardinality(Live)

(* Mutant: a page that ends with the list announces another one.           *)
HasMoreAtEnd(offset, count) == offset + count <= Cardinality(Live)

HasMore(offset, count) == offset + count < Cardinality(Live)

(* enumerate_kem_keys_internal: page and total are of one moment.          *)
EnumerateInternal(offset, n) ==
  LET page == ListAllKeys(offset, n)
  IN [keys |-> page, has_more |-> HasMore(offset, Len(page))]

-----------------------------------------------------------------------------
(* The registry between two pages.  The reaper only removes keys that the  *)
(* listing does not show any more.                                         *)

(* What happens to the live keys while a client is paging.                 *)
Track ==
  IF scan = "paging"
    THEN came' = came \cup (Live' \ Live) /\ gone' = gone \cup (Live \ Live')
    ELSE UNCHANGED <<came, gone>>

(* create_key_internal reads the clock ...                                 *)
CreateKey(h, life) ==
  /\ delete_after[h] = 0
  /\ made' = made \cup {h}
  /\ created_at' = [created_at EXCEPT ![h] = now]
  /\ delete_after' = [delete_after EXCEPT ![h] = now + life]
  /\ UNCHANGED <<now, keys, scanVars, came, gone>>

(* ... and add_key comes later, so that keys may arrive out of order.      *)
AddKey(h) ==
  /\ h \in made
  /\ made' = made \ {h}
  /\ keys' = keys \cup {h}
  /\ UNCHANGED <<now, created_at, delete_after, scanVars>>
  /\ Track

RemoveKey(h) ==
  /\ h \in keys
  /\ keys' = keys \ {h}
  /\ UNCHANGED <<now, registry, scanVars>>
  /\ Track

Tick ==
  /\ now < Horizon
  /\ now' = now + 1
  /\ UNCHANGED <<keys, registry, scanVars>>
  /\ Track

-----------------------------------------------------------------------------
(* GET /v1/keys of the WSD: one page, and has_more is not looked at.       *)
HandleEnumerateKeys ==
  /\ scan = "none"
  /\ scan' = "listed"
  /\ limit' = DefaultEnumerateLimit
  /\ seen' = EnumerateInternal(0, DefaultEnumerateLimit).keys
  /\ atStart' = Live
  /\ UNCHANGED <<now, registry, keys, came, gone>>

(* EnumerateKEMKeys of the KPS with the offset of what has been seen; a    *)
(* limit of 0 is refused.                                                  *)
EnumerateKEMKeys(n) ==
  LET answer == EnumerateInternal(Len(seen), n)
  IN /\ n > 0
     /\ seen' = seen \o answer.keys
     /\ scan' = IF answer.has_more THEN "paging" ELSE "done"

(* A client asks for the first page, and for another one while has_more.   *)
FirstPage(n) ==
  /\ scan = "none"
  /\ EnumerateKEMKeys(n)
  /\ limit' = n
  /\ atStart' = Live
  /\ UNCHANGED <<now, registry, keys, came, gone>>

NextPage ==
  /\ scan = "paging"
  /\ EnumerateKEMKeys(limit)
  /\ UNCHANGED <<now, registry, keys, limit, atStart, came, gone>>

Next ==
  \/ \E h \in KeyHandle, life \in Lifespan : CreateKey(h, life)
  \/ \E h \in KeyHandle : AddKey(h) \/ RemoveKey(h)
  \/ Tick
  \/ HandleEnumerateKeys
  \/ \E n \in Limit : FirstPage(n)
  \/ NextPage

Spec == Init /\ [][Next]_vars

(* A client that began goes on; nobody promises it that the keys stay.     *)
FairSpec == Spec /\ WF_vars(NextPage)

-----------------------------------------------------------------------------
(* A scan misses at most as many of the keys that were live throughout as  *)
(* keys were removed or expired meanwhile; with none gone it misses none,  *)
(* in whatever order keys with earlier created_at were added.              *)
MissesAtMostGone ==
  scan = "done" =>
    Cardinality((atStart \ gone) \ Range(seen)) <= Cardinality(gone)

(* A scan repeats at most as many keys as were added meanwhile: the sort   *)
(* of list_all_keys makes the pages of an unchanged registry disjoint.     *)
RepeatsAtMostCame ==
  Len(seen) - Cardinality(Range(seen)) <= Cardinality(came)

(* Following has_more ends, also when the list shrinks below the offset.   *)
ScanEnds == scan = "paging" ~> scan = "done"

(* The one page of GET /v1/keys has no key twice, and has every live key   *)
(* as long as no more keys are live than it asks for.                      *)
ListsUpToLimit ==
  scan = "listed" =>
    /\ Len(seen) = Cardinality(Range(seen))
    /\ Cardinality(atStart) <= DefaultEnumerateLimit => Range(seen) = atStart

(* The listing of GET /v1/keys has all live keys: EnumerateKeysResponse is *)
(* "a list of all active keys managed by the daemon".                      *)
ListsAllKeys == scan = "listed" => Range(seen) = atStart

=============================================================================
