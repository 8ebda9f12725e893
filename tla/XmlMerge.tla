------------------------------- MODULE XmlMerge -------------------------------
(***************************************************************************)
(* XmlMerger of the satellite: the changes of a configuration step merged  *)
(* into an XML document.  A document is the sequence of its elements, each *)
(* with its name, its attributes and the index of its parent, which comes  *)
(* before it; siblings are in document order.  Text is left out, which the *)
(* merger leaves alone in the document and ignores in the changes.  An     *)
(* element of the changes has two more fields, the attributes              *)
(* childNodesKeyName and collectionKeyName.                                *)
(***************************************************************************)
EXTENDS Naturals, Sequences

NoKey == ""

Element(name, attributes, parent) ==
  [name |-> name, attributes |-> attributes, parent |-> parent]

Change(name, attributes, key, collections, parent) ==
  [name |-> name, attributes |-> attributes, key |-> key, collections |-> collections,
   parent |-> parent]

NoAttributes == << >>

IsTree(nodes) ==
  /\ nodes \in Seq({nodes[i] : i \in DOMAIN nodes})
  /\ \A i \in DOMAIN nodes : nodes[i].parent \in 0 .. i - 1

IsDocument(nodes) ==
  /\ IsTree(nodes)
  /\ \A i \in DOMAIN nodes :
       nodes[i] = Element(nodes[i].name, nodes[i].attributes, nodes[i].parent)

HasOneRoot(nodes) == \A i \in DOMAIN nodes : nodes[i].parent = 0 => i = 1

IsChanges(c) ==
  /\ IsTree(c) /\ HasOneRoot(c) /\ c # << >>
  /\ \A k \in DOMAIN c :
       c[k] = Change(c[k].name, c[k].attributes, c[k].key, c[k].collections, c[k].parent)

\* Mistaken variant: the attributes are those of the changes.
MergeNodeAttributesReplacing(old, new) == new

\* The value that asks for an attribute to be removed.
DeletionMarker == "aspnetdeploy-delete-attribute"

\* An attribute marked for deletion should go.  It is removed, found missing, and created again
\* with the marker for its value: it ends like every other one, with what the changes have.
MergeNodeAttributes(old, new) ==
  [a \in DOMAIN old \union DOMAIN new |-> IF a \in DOMAIN new THEN new[a] ELSE old[a]]

Named(nodes, parent, name) ==
  {i \in DOMAIN nodes : nodes[i].parent = parent /\ nodes[i].name = name}

Several(indices) == \E i, j \in indices : i # j

\* The names among the children of change k, merged into element place, that are collections.
GetCollectionMarkers(nodes, place, c, k) ==
  {name \in {c[i].name : i \in {j \in DOMAIN c : c[j].parent = k}} :
     \/ Several(Named(nodes, place, name))
     \/ Several(Named(c, k, name))
     \/ name \in c[k].collections}

\* The attribute that tells change k from its siblings.
KeyOf(c, k) == IF c[k].parent = 0 THEN NoKey ELSE c[c[k].parent].key

HasKey(c, k) ==
  KeyOf(c, k) # NoKey /\ KeyOf(c, k) \in DOMAIN c[k].attributes /\ c[k].attributes[KeyOf(c, k)] # ""

\* Mistaken variant: the arguments of the query are swapped.
MatchesSwapped(nodes, parent, c, k) ==
  {i \in Named(nodes, parent, c[k].name) :
     HasKey(c, k) =>
       /\ KeyOf(c, k) \in DOMAIN nodes[i].attributes
       /\ nodes[i].attributes[KeyOf(c, k)] = KeyOf(c, k)}

\* GetFirstChild: with the key if change k has one, else by its name alone.
Matches(nodes, parent, c, k) ==
  {i \in Named(nodes, parent, c[k].name) :
     HasKey(c, k) =>
       /\ KeyOf(c, k) \in DOMAIN nodes[i].attributes
       /\ nodes[i].attributes[KeyOf(c, k)] = c[k].attributes[KeyOf(c, k)]}

First(indices) == CHOOSE i \in indices : \A j \in indices : i <= j

Extended(f, k, value) == [j \in 0 .. k |-> IF j = k THEN value ELSE f[j]]

\* The merge before change k: the elements, and for each earlier change and for the document
\* itself, 0, the element that it was merged into and the markers for its children.
Appends(before, c, k) == ~HasKey(c, k) /\ c[k].name \in before.markers[c[k].parent]

Found(before, c, k) == Matches(before.nodes, before.place[c[k].parent], c, k)

\* The markers for its children are those before the first one of them is merged.
MergeNode(before, c, k) ==
  LET found == Found(before, c, k)
      isNew == Appends(before, c, k) \/ found = {}
      place == IF isNew THEN Len(before.nodes) + 1 ELSE First(found)
      nodes ==
        IF isNew
        THEN Append(before.nodes,
                    Element(c[k].name, MergeNodeAttributes(NoAttributes, c[k].attributes),
                            before.place[c[k].parent]))
        ELSE [before.nodes EXCEPT ![place].attributes = MergeNodeAttributes(@, c[k].attributes)]
  IN [nodes |-> nodes,
      place |-> Extended(before.place, k, place),
      markers |-> Extended(before.markers, k, GetCollectionMarkers(nodes, place, c, k))]

Unmerged(document) ==
  [nodes |-> document, place |-> [j \in {0} |-> 0], markers |-> [j \in {0} |-> {}]]

\* The changes are merged in their order, each one before its children and those before its
\* next sibling.
MergeNodes(document, c) ==
  LET after[k \in 0 .. Len(c)] == IF k = 0 THEN Unmerged(document) ELSE MergeNode(after[k - 1], c, k)
  IN after

\* A missing file is a document without a root, and there is only one root.
NoDocument == << >>

CanApply(document, c) == document # NoDocument => document[1].name = c[1].name

ApplyChanges(document, c) == MergeNodes(document, c)[Len(c)]

-----------------------------------------------------------------------------
(* What documents mean, to compare the result with.                        *)

\* The attribute that tells the elements of a collection from one another.
IdAttribute == "key"

Identity(e) ==
  <<e.name, IF IdAttribute \in DOMAIN e.attributes THEN e.attributes[IdAttribute] ELSE "">>

Siblings(nodes, i) == {j \in DOMAIN nodes : nodes[j].parent = nodes[i].parent}

Paths(nodes) ==
  LET path[i \in DOMAIN nodes] ==
        IF nodes[i].parent = 0 THEN <<Identity(nodes[i])>>
        ELSE Append(path[nodes[i].parent], Identity(nodes[i]))
  IN path

\* A document as the set of what it says: that there is an element at a path, and which
\* value each attribute of it has.
Meaning(nodes) ==
  UNION {LET path == Paths(nodes)[i] IN
         {[subject |-> <<path>>, value |-> ""]} \union
         {[subject |-> <<path, a>>, value |-> nodes[i].attributes[a]] : a \in DOMAIN nodes[i].attributes}
         : i \in DOMAIN nodes}

\* What changes ask to be removed, and what they ask the document to say.
ToDelete(c) == {f.subject : f \in {g \in Meaning(c) : g.value = DeletionMarker}}

Asked(c) == {f \in Meaning(c) : f.subject \notin ToDelete(c)}

Overlay(old, new) == new \union {f \in old : \A g \in new : g.subject # f.subject}

\* In a merge, no change is appended to a collection for want of a key, and no two are merged
\* into the same element.
Distinct(merge, c) ==
  \A k \in DOMAIN c :
    /\ ~Appends(merge, c, k)
    /\ \A j \in DOMAIN c : merge.place[j] = merge.place[k] => j = k

\* Besides, each is merged into the only element of its parent with its name and IdAttribute,
\* which it does not mark for deletion.
Addressed(document, merge, c) ==
  /\ Distinct(merge, c)
  /\ \A k \in DOMAIN c :
       LET place == merge.place[k] IN
       /\ Identity(c[k])[2] # DeletionMarker
       /\ place \in DOMAIN document => Identity(document[place]) = Identity(c[k])
       /\ \A i \in Siblings(merge.nodes, place) :
            Identity(merge.nodes[i]) = Identity(merge.nodes[place]) => i = place
=============================================================================
