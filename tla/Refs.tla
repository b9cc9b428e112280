---------------------------------- MODULE Refs ----------------------------------
(***************************************************************************)
(* The refs an agent acts by over MCP (internal/mcp/snapshot.go and          *)
(* target.go): a snapshot gives each element it lists a ref, and a later     *)
(* call names an element by its ref on whatever is then on the screen.       *)
(*                                                                         *)
(* The screen is the tree in document order, each element with its Index     *)
(* (uid, the model's knowledge of which element it is: it outlives the       *)
(* others' coming and going), its ParentIndex, and its kind: a role, an      *)
(* identifier and a text, "" where the element has none.  Identities are     *)
(* tuples where the code joins strings: an identifier that itself ends in    *)
(* "#2" is left out.                                                         *)
(***************************************************************************)
EXTENDS Integers, SequencesExt

CONSTANTS
  ElementKind,   \* the kinds of element the app draws
  Interactive,   \* uisem's interactive roles
  MaxUid         \* elements the screen shows in all, the bound

ASSUME KindAssumption == /\ \A k \in ElementKind : k.role # "#"
                         /\ "" \notin Interactive /\ MaxUid \in Nat

VARIABLES
  elements, \* the tree on the device
  drawn,    \* elements it ever showed
  ids,      \* refRegistry.ids: identity -> ref
  lastRef,  \* refRegistry.last
  prev,     \* refRegistry.prev: ref -> the element its line showed
  seen      \* the screen of the last snapshot

refVars == <<elements, drawn, ids, lastRef, prev, seen>>

IsText(n) == n.role = "text" /\ n.text # ""

(* The uids of the elements the one at uid sits in.                        *)
Above(nodes, uid) ==
  LET up[u \in 0..MaxUid] ==
        IF u = 0 THEN {}
        ELSE LET n == CHOOSE n \in ToSet(nodes) : n.uid = u
             IN {n.parent} \cup up[n.parent]
  IN up[uid] \ {0}

At(nodes, uid) == CHOOSE n \in ToSet(nodes) : n.uid = uid

(* nameFromChildren: the control a text lends its words to is the nearest    *)
(* interactive one it sits in (parents are drawn, and numbered, first).      *)
ControlOf(nodes, n) ==
  LET controls == {u \in Above(nodes, n.uid) : At(nodes, u).role \in Interactive}
  IN IF controls = {} THEN 0 ELSE CHOOSE u \in controls : \A v \in controls : v <= u

ChildText(nodes, n) ==
  LET lent == SelectSeq(nodes, LAMBDA t : IsText(t) /\ ControlOf(nodes, t) = n.uid)
  IN IF lent = <<>> THEN "" ELSE lent[1].text

Name(nodes, n) == IF n.text # "" THEN n.text ELSE ChildText(nodes, n)

Included(nodes, n, full) ==
  \/ n.role \in Interactive
  \/ n.id # "" /\ n.role # ""
  \/ full /\ n.role # "" /\ Name(nodes, n) # ""

(* Mutant: the role is left out of the key.                                  *)
KeyByName(nodes, n) == IF n.id # "" THEN <<"#", n.id>> ELSE <<"", Name(nodes, n)>>

Key(nodes, n) == IF n.id # "" THEN <<"#", n.id>> ELSE <<n.role, Name(nodes, n)>>

(* The elements a walk includes, by their places, and the identity of each:  *)
(* its key and, among those that share it, its ordinal.                      *)
Listed(nodes, full) == {i \in DOMAIN nodes : Included(nodes, nodes[i], full)}

IdentityAt(nodes, list, i) ==
  <<Key(nodes, nodes[i]),
    Cardinality({j \in list : j <= i /\ Key(nodes, nodes[j]) = Key(nodes, nodes[i])})>>

(* refIndex, which an act tool given a ref asks of the tree it reads: the    *)
(* first element of the full walk whose identity holds ref; 0 when there is  *)
(* none and the tool fails.  It changes nothing of the registry.             *)
Holding(nodes, ref) ==
  {i \in Listed(nodes, TRUE) : LET who == IdentityAt(nodes, Listed(nodes, TRUE), i)
                               IN who \in DOMAIN ids /\ ids[who] = ref}
RefIndex(nodes, ref) ==
  IF Holding(nodes, ref) = {} THEN 0 ELSE nodes[Min(Holding(nodes, ref))].uid

-----------------------------------------------------------------------------
RefsInit ==
  /\ elements = <<>> /\ drawn = 0 /\ seen = <<>>
  /\ ids = [who \in {} |-> 0] /\ lastRef = 0 /\ prev = [r \in {} |-> 0]

(* The app draws an element after the first i, in one already drawn there.   *)
Draw(i, kind, parent) ==
  /\ drawn < MaxUid
  /\ parent \in {0} \cup {elements[j].uid : j \in 1..i}
  /\ drawn' = drawn + 1
  /\ elements' = InsertAt(elements, i + 1, [uid |-> drawn + 1, parent |-> parent,
                    role |-> kind.role, id |-> kind.id, text |-> kind.text])
  /\ UNCHANGED <<ids, lastRef, prev, seen>>

(* An element goes, with those inside it; the others keep their order.       *)
Erase(i) ==
  LET gone == elements[i].uid
      stay == {j \in DOMAIN elements :
                 elements[j].uid # gone /\ gone \notin Above(elements, elements[j].uid)}
  IN /\ \E at \in [1..Cardinality(stay) -> stay] :
          /\ \A j, k \in DOMAIN at : j < k => at[j] < at[k]
          /\ elements' = [j \in DOMAIN at |-> elements[at[j]]]
     /\ UNCHANGED <<drawn, ids, lastRef, prev, seen>>

(* Client.snapshot: every mode but full (diff too) walks the interactive     *)
(* elements.  The tree is read before the registry is taken and is the       *)
(* screen of that moment.  refRegistry.ref for each identity of the walk, in *)
(* order: a known one keeps its ref, a new one takes the next number.        *)
Snapshot(full) ==
  LET list == Listed(elements, full)
      who(i) == IdentityAt(elements, list, i)
      new == {i \in list : who(i) \notin DOMAIN ids}
      number(i) == lastRef + Cardinality({j \in new : j <= i})
  IN /\ elements # <<>>
     /\ ids' = [w \in DOMAIN ids \cup {who(i) : i \in new} |->
                  IF w \in DOMAIN ids THEN ids[w] ELSE number(CHOOSE i \in new : who(i) = w)]
     /\ lastRef' = lastRef + Cardinality(new)
     /\ prev' = [r \in {ids'[who(i)] : i \in list} |->
                   elements[Max({i \in list : ids'[who(i)] = r})]]
     /\ seen' = elements
     /\ UNCHANGED <<elements, drawn>>

RefsNext ==
  \/ \E i \in 0..Len(elements), kind \in ElementKind, parent \in 0..MaxUid : Draw(i, kind, parent)
  \/ \E i \in DOMAIN elements : Erase(i)
  \/ \E full \in BOOLEAN : Snapshot(full)

RefsSpec == RefsInit /\ [][RefsNext]_refVars

-----------------------------------------------------------------------------
(* On the screen a snapshot read, each ref names the element its line shows, *)
(* though the snapshot walked the controls and the act walks the named texts *)
(* too: the two counts of what shares a name agree, and no element is listed *)
(* under another's ref (snapLines, refIndex).                                *)
RefsNameWhatTheyShow ==
  elements = seen => \A ref \in DOMAIN prev : RefIndex(elements, ref) = prev[ref].uid

(* Whatever came and went since, a ref acts on an element with the           *)
(* identifier, or with the role and name, of the one it was listed for       *)
(* (refRegistry: numbers are never reused).                                  *)
RefKeepsItsMeaning ==
  \A ref \in DOMAIN prev :
    LET uid == RefIndex(elements, ref)
        Same(n, m) == IF m.id # "" THEN n.id = m.id
                      ELSE n.role = m.role /\ Name(elements, n) = Name(seen, m)
    IN uid # 0 => Same(At(elements, uid), prev[ref])

(* What a ref was listed as is what it does, now and later.                  *)
RefsHold == RefsNameWhatTheyShow /\ RefKeepsItsMeaning

(* What target.go says of refIndex: "a ref for an element that has gone      *)
(* fails instead of acting on whatever took its place".                      *)
GoneRefFails ==
  \A ref \in DOMAIN prev :
    (\A n \in ToSet(elements) : n.uid # prev[ref].uid) => RefIndex(elements, ref) = 0
=============================================================================
