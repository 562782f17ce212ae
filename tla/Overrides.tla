----------------------------- MODULE Overrides -----------------------------
(***************************************************************************)
(* --set of generate and deploy: MapValues and MergeValuesWithAPIModel     *)
(* (apimodel_merger.go) write `name=value` pairs into apimodel.json, one   *)
(* after the other in the random order of a Go map; LoadContainerService   *)
(* (apiloader.go) then decodes the merged document and refuses keys it     *)
(* does not know (strictjson.go).                                          *)
(*                                                                         *)
(* A document is a function from the paths of its leaves, under            *)
(* "properties", to their values.  A step of a path is a key of an object, *)
(* as it is spelled, or an element of an array.                            *)
(***************************************************************************)
EXTENDS Integers, FiniteSets, SequencesExt

CONSTANTS
  Keys,      \* keys of objects
  Folded,    \* what a key is without its case
  Rank,      \* the order of the keys in the merged file, which is that of their bytes
  Element,   \* the step to the element of an array at an index
  Number,    \* the texts that ParseInt accepts, and their numbers
  Schema,    \* the fields of a document, without case, and their kinds
  Free,      \* the field that takes any members (extraConfigs)
  Files,     \* the documents in apimodel.json
  Commands   \* the pairs of the --set flags of a command, split at commas

Elements == {Element[n] : n \in DOMAIN Element}

\* A value is an integer when its text is none or a number.
APIModelValue == [stringValue : STRING, intValue : Int]

Document(paths) == [paths -> APIModelValue]

\* name, or name[index].property; a pair has the texts between the `=` after it, too.
Unindexed == "none"

IsIndexed(key) == key.index # Unindexed

Key ==
  {key \in [name : Seq(Keys) \ {<< >>}, index : STRING, property : Seq(Keys)] :
     IsIndexed(key) <=> key.property # << >>}

ASSUME LiteralsAssumption == "" \in STRING
ASSUME ElementsAssumption ==
  Keys \intersect Elements = {} /\ Number \in [DOMAIN Number -> DOMAIN Element \intersect Int]
ASSUME FoldedAssumption == Folded \in [Keys \union Elements -> Keys \union Elements]
\* No two keys, and no two elements, have the same place in the order.
ASSUME RankAssumption ==
  /\ Rank \in [Keys \union Elements -> Int]
  /\ \A a, b \in Keys \union Elements : Rank[a] = Rank[b] => a = b
\* A field of the schema has no fields below it, and the members of Free are not its.
ASSUME SchemaAssumption ==
  /\ DOMAIN Schema \subseteq Seq(Keys \union Elements) /\ Free \in Seq(Keys \union Elements)
  /\ \A p, q \in DOMAIN Schema : ~ IsStrictPrefix(p, q)
  /\ \A p \in DOMAIN Schema : ~ IsPrefix(Free, p)
ASSUME FilesAssumption ==
  \A f \in Files :
    /\ f \in Document(DOMAIN f) /\ DOMAIN f \subseteq Seq(Keys \union Elements)
    /\ \A p, q \in DOMAIN f : ~ IsStrictPrefix(p, q)
ASSUME FiniteAssumption == \A f \in Files : IsFiniteSet(DOMAIN f)
ASSUME CommandsAssumption == Commands \subseteq Seq([key : Key, texts : Seq(STRING)])

(***************************************************************************)
(* MapValues: the pairs by the text of their keys; an index that is no     *)
(* number is skipped with a warning, the last pair of a key counts.        *)
(***************************************************************************)
Value(text) ==
  IF text \in DOMAIN Number THEN [stringValue |-> "", intValue |-> Number[text]]
                            ELSE [stringValue |-> text, intValue |-> 0]

Kept(pairs) ==
  {i \in DOMAIN pairs : IsIndexed(pairs[i].key) => pairs[i].key.index \in DOMAIN Number}

LastOf(pairs, key) ==
  CHOOSE i \in Kept(pairs) :
    /\ pairs[i].key = key
    /\ \A j \in Kept(pairs) : pairs[j].key = key => j <= i

FirstOf(pairs, key) ==
  CHOOSE i \in Kept(pairs) :
    /\ pairs[i].key = key
    /\ \A j \in Kept(pairs) : pairs[j].key = key => i <= j

\* Mutant: the first pair of a key counts.
MapValues_First(pairs) ==
  [key \in {pairs[i].key : i \in Kept(pairs)} |-> Value(pairs[FirstOf(pairs, key)].texts[1])]

MapValues(pairs) ==
  [key \in {pairs[i].key : i \in Kept(pairs)} |-> Value(pairs[LastOf(pairs, key)].texts[1])]

\* splitted[1] of a pair without `=`
PairPanics(pairs) == \E i \in DOMAIN pairs : pairs[i].texts = <<>>

(***************************************************************************)
(* SetP of gabs, and Path(name).Index(i).SetP: missing objects are made,   *)
(* what is there is replaced; under a scalar, in an array without an       *)
(* index, or in an element that is not there, nothing happens, and the     *)
(* error is dropped.                                                       *)
(***************************************************************************)
IsArray(doc, path) ==
  \E q \in DOMAIN doc : IsStrictPrefix(path, q) /\ q[Len(path) + 1] \in Elements

ElementOf(key) == Append(key.name, Element[Number[key.index]])

Target(key) == IF IsIndexed(key) THEN ElementOf(key) \o key.property ELSE key.name

HasElement(doc, key) == \E q \in DOMAIN doc : IsPrefix(ElementOf(key), q)

Collides(doc, path) ==
  \/ \E q \in DOMAIN doc : IsStrictPrefix(q, path)
  \/ \E n \in 1 .. Len(path) - 1 :
       path[n + 1] \notin Elements /\ IsArray(doc, SubSeq(path, 1, n))

Settable(doc, key) == (IsIndexed(key) => HasElement(doc, key)) /\ ~ Collides(doc, Target(key))

IndexPanics(doc, key) ==
  IsIndexed(key) /\ Number[key.index] < 0 /\ IsArray(doc, key.name)

Under(path, paths) == {q \in paths : IsPrefix(path, q)}

(***************************************************************************)
(* A name that meets an array before its end: Search looks for the rest of *)
(* it in every element, and what it finds is the array the index counts    *)
(* in.  (An array in an element is searched likewise, but what is found    *)
(* there is an array again, in which SetP sets nothing.)                   *)
(***************************************************************************)
ArraysOn(doc, name) == {n \in 1 .. Len(name) - 1 : IsArray(doc, SubSeq(name, 1, n))}

Spreads(doc, key) == IsIndexed(key) /\ ArraysOn(doc, key.name) # {}

\* There is one: what comes after it in the document is no key.
ArrayOn(doc, name) == SubSeq(name, 1, CHOOSE n \in ArraysOn(doc, name) : TRUE)

KeysOf(path) == SelectSeq(path, LAMBDA step : step \notin Elements)

\* The elements that have the rest of the name.
Search(doc, name) ==
  {n \in DOMAIN Element : \E q \in DOMAIN doc :
     IsPrefix(Append(ArrayOn(doc, name), Element[n]), q) /\ IsPrefix(name, KeysOf(q))}

Nth(found, i) == CHOOSE n \in found : Cardinality({k \in found : k < n}) = i

PlaceFound(doc, key) ==
  LET array == ArrayOn(doc, key.name)
      n     == Nth(Search(doc, key.name), Number[key.index])
  IN Append(array, Element[n]) \o SubSeq(key.name, Len(array) + 1, Len(key.name)) \o key.property

\* Mutant: what was below the path stays.
SetP_Beside(doc, path, value) ==
  [q \in DOMAIN doc \union {path} |-> IF q = path THEN value ELSE doc[q]]

SetP(doc, path, value) ==
  [q \in (DOMAIN doc \ Under(path, DOMAIN doc)) \union {path} |->
     IF q = path THEN value ELSE doc[q]]

(***************************************************************************)
(* Decoding.  encoding/json and checkJSONKeys compare keys without case;   *)
(* of two spellings of one field the later one in the file counts.  The    *)
(* members of extraConfigs are not compared with anything.                 *)
(***************************************************************************)
Kind(value) == IF value.stringValue # "" THEN "string" ELSE "int"

Fold(path) == [i \in DOMAIN path |-> Folded[path[i]]]

Field(path) == [i \in DOMAIN path |-> IF i <= Len(Free) \/ ~ IsPrefix(Free, Fold(path))
                                        THEN Folded[path[i]] ELSE path[i]]

checkJSONKeys(doc) ==
  \A q \in DOMAIN doc : Fold(q) \in DOMAIN Schema \/ IsStrictPrefix(Free, Fold(q))

Unmarshals(doc) ==
  \A q \in DOMAIN doc : Fold(q) \in DOMAIN Schema => Kind(doc[q]) = Schema[Fold(q)]

Before(p, q) ==
  \E i \in DOMAIN p \intersect DOMAIN q :
    Rank[p[i]] < Rank[q[i]] /\ \A j \in 1 .. i - 1 : p[j] = q[j]

Spellings(doc, f) == {q \in DOMAIN doc : Field(q) = f}

Latest(paths) == CHOOSE q \in paths : \A r \in paths : ~ Before(q, r)

\* What the fields of the loaded document are.
Cluster(doc) ==
  [f \in {Field(q) : q \in DOMAIN doc} |-> doc[Latest(Spellings(doc, f))]]

(***************************************************************************)
(* A run of the command, up to the loaded document.                        *)
(***************************************************************************)
VARIABLES
  file,    \* apimodel.json
  set,     \* the pairs of the command
  phase,
  values,  \* the map m
  done,    \* the keys of m the loop is through with
  doc      \* jsonObj

vars == <<file, set, phase, values, done, doc>>

Init ==
  /\ file \in Files
  /\ set \in Commands
  /\ phase = "mapping"
  /\ values = << >>
  /\ done = {}
  /\ doc = file

\* MapValues, for all flags.
Map ==
  /\ phase = "mapping"
  /\ IF PairPanics(set)
       THEN phase' = "crashed" /\ UNCHANGED values
       ELSE phase' = "merging" /\ values' = MapValues(set)
  /\ UNCHANGED <<file, set, done, doc>>

\* The body of the loop, for a key the map yields next.
Merge(key) ==
  /\ phase = "merging"
  /\ key \notin done
  /\ ~ Spreads(doc, key)
  /\ IF IndexPanics(doc, key)
       THEN phase' = "crashed" /\ UNCHANGED <<done, doc>>
       ELSE /\ done' = done \union {key}
            /\ doc' = IF Settable(doc, key) THEN SetP(doc, Target(key), values[key]) ELSE doc
            /\ UNCHANGED phase
  /\ UNCHANGED <<file, set, values>>

\* The same, for a key whose name meets an array.
MergeFound(key) ==
  /\ phase = "merging"
  /\ key \notin done
  /\ Spreads(doc, key)
  /\ LET found == Search(doc, key.name)
         n     == Number[key.index]
         place == PlaceFound(doc, key)
     IN IF n < 0 /\ found # {}
          THEN phase' = "crashed" /\ UNCHANGED <<done, doc>>
          ELSE /\ done' = done \union {key}
               /\ doc' = IF n \in 0 .. Cardinality(found) - 1 /\ ~ Collides(doc, place)
                           THEN SetP(doc, place, values[key]) ELSE doc
               /\ UNCHANGED phase
  /\ UNCHANGED <<file, set, values>>

\* LoadContainerServiceFromFile of the merged file.
LoadAPIModel ==
  /\ phase = "merging"
  /\ done = DOMAIN values
  /\ phase' = IF checkJSONKeys(doc) /\ Unmarshals(doc) THEN "loaded" ELSE "refused"
  /\ UNCHANGED <<file, set, values, done, doc>>

Next == Map \/ (\E key \in DOMAIN values : Merge(key) \/ MergeFound(key)) \/ LoadAPIModel

Spec == Init /\ [][Next]_vars

(***************************************************************************)
(* Properties.                                                             *)
(***************************************************************************)
\* A leaf has nothing below it: the document is one that JSON can write down.
TypeOK ==
  /\ phase \in {"mapping", "merging", "crashed", "loaded", "refused"}
  /\ DOMAIN values \subseteq Key /\ done \subseteq DOMAIN values
  /\ doc \in Document(DOMAIN doc)
  /\ \A p, q \in DOMAIN doc : ~ IsStrictPrefix(p, q)

\* The merge without an order: of the pairs that find their place in the file, those
\* with none above them are written, and what the file has below them is gone.
Effective(keys) == {key \in keys : Settable(file, key)}

Outermost(keys) ==
  {key \in Effective(keys) :
     \A other \in Effective(keys) : ~ IsStrictPrefix(Target(other), Target(key))}

Merged(keys) ==
  LET kept    == {q \in DOMAIN file : \A key \in Effective(keys) : ~ IsPrefix(Target(key), q)}
      written == {Target(key) : key \in Outermost(keys)}
  IN [q \in kept \union written |->
        IF q \in written THEN values[CHOOSE key \in Outermost(keys) : Target(key) = q]
                         ELSE file[q]]

\* No two keys name one place with different texts, as pools[0] and pools[00] do.
Unaliased(keys) == \A k, l \in keys : Target(k) = Target(l) => k = l

\* No name meets an array, of which another pair could change what is found in it.
Direct(keys) == \A key \in keys : ~ Spreads(file, key)

\* The pairs are applied in the random order of a map: the merged document does not
\* depend on it, even where pairs touch the same part of the document.
OrderFree == Direct(DOMAIN values) /\ Unaliased(DOMAIN values) => doc = Merged(done)

\* Pairs without effect, though the document may be accepted.
Lost(key) ==
  \/ IsIndexed(key) /\ key.index \notin DOMAIN Number
  \/ ~ Settable(file, key)
  \/ \E other \in DOMAIN values \ {key} : IsPrefix(Target(other), Target(key))
  \* the same field in a spelling that comes later in the file
  \/ \E q \in DOMAIN doc : Field(q) = Field(Target(key)) /\ Before(Target(key), q)

\* What a key writes to: its field, and what was below it where that is no field of the
\* schema, as the members of extraConfigs.
Touches(key, f) ==
  LET target == Field(Target(key))
  IN f = target \/ (IsStrictPrefix(target, f) /\ f \notin DOMAIN Schema)

\* A value means the text of a pair, which is all that follows its first `=`, when it is
\* that text, or the number that the text is a numeral of.
Means(value, texts) ==
  /\ Len(texts) = 1
  /\ \/ value.stringValue = texts[1] /\ texts[1] # ""
     \/ /\ value.stringValue = "" /\ texts[1] \in DOMAIN Number
        /\ value.intValue = Number[texts[1]]

\* The texts the tool changes: it ends them at a second `=`, and makes 0 of none.
Altered(texts) == Len(texts) > 1 \/ texts[1] = ""

\* When the merged document is accepted, the cluster is what the file and the command
\* say: a pair that is neither Lost nor Altered has its text, and no other field has
\* changed.
AcceptedMeansAsked ==
  phase = "loaded" /\ Direct(DOMAIN values) =>
    /\ \A i \in DOMAIN set :
         \/ \E j \in DOMAIN set : j > i /\ set[j].key = set[i].key
         \/ Lost(set[i].key) \/ Altered(set[i].texts)
         \/ Means(Cluster(doc)[Field(Target(set[i].key))], set[i].texts)
    /\ \A f \in DOMAIN Cluster(doc) \union DOMAIN Cluster(file) :
         \/ \E key \in DOMAIN values : Touches(key, f)
         \/ f \in DOMAIN Cluster(doc) /\ f \in DOMAIN Cluster(file)
            /\ Cluster(doc)[f] = Cluster(file)[f]
=============================================================================
