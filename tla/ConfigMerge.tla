------------------------------ MODULE ConfigMerge ------------------------------
(***************************************************************************)
(* merge_configs and merge_yaml: several sources, of which later ones      *)
(* override earlier ones.                                                  *)
(*                                                                         *)
(* An INI source is a sequence of lines: <<"section", name>> or            *)
(* <<"assign", key, value>>, where a value is the list of its lines and    *)
(* <<"">> is a key without a value.  What is parsed keeps the order of its *)
(* sections, because write depends on it.  A YAML value is a leaf, a list  *)
(* or a dict.                                                              *)
(***************************************************************************)
EXTENDS Naturals, Sequences, SequencesExt, FiniteSetsExt

Orphan == "__ORPHAN__"
Nothing == [x \in {} |-> <<>>]

\* f with the value v at x.
Put(f, x, v) == [y \in DOMAIN f \cup {x} |-> IF y = x THEN v ELSE f[y]]
Get(f, x, default) == IF x \in DOMAIN f THEN f[x] ELSE default

----------------------------------------------------------------------------
(* OverrideConfigParser *)

NoSections == [order |-> <<>>, at |-> Nothing]

new_section(c, s) ==
    IF s \in DOMAIN c.at THEN c ELSE [order |-> Append(c.order, s), at |-> Put(c.at, s, Nothing)]

\* Within one source the values of a key add up.
assignment(c, s, key, value) ==
    LET v == IF value = <<"">> THEN <<>> ELSE value
    IN  [c EXCEPT !.at[s] = Put(@, key, Append(Get(@, key, <<>>), v))]

\* One line, in the section that is current; before any header it is the orphan one.
ParseLine(state, line) ==
    IF line[1] = "section" THEN [cur |-> line[2], conf |-> new_section(state.conf, line[2])]
    ELSE [state EXCEPT !.conf = assignment(new_section(@, state.cur), state.cur, line[2], line[3])]

ParseSource(lines) == FoldLeft(ParseLine, [cur |-> Orphan, conf |-> NoSections], lines).conf

\* The merge at the end of parse: per section and key, the later source replaces
\* the whole list of values.
MergeSectionsAdding(all, new) ==
    FoldLeft(LAMBDA c, s : LET d == new_section(c, s)
                           IN  [d EXCEPT !.at[s] = [k \in DOMAIN @ \cup DOMAIN new.at[s] |->
                                                      Get(@, k, <<>>) \o Get(new.at[s], k, <<>>)]],
             all, new.order)

MergeSections(all, new) ==
    FoldLeft(LAMBDA c, s : LET d == new_section(c, s)
                           IN  [d EXCEPT !.at[s] = [k \in DOMAIN @ \cup DOMAIN new.at[s] |->
                                                      IF k \in DOMAIN new.at[s] THEN new.at[s][k] ELSE @[k]]],
             all, new.order)

merge_configs(sources) ==
    FoldLeft(LAMBDA c, src : MergeSections(c, ParseSource(src)), NoSections, sources)

\* write: the orphan section has no header.
WriteSection(c, s) ==
    (IF s = Orphan THEN <<>> ELSE <<<<"section", s>>>>)
    \o FlattenSeq([i \in 1..Cardinality(DOMAIN c.at[s]) |->
          LET k == SetToSeq(DOMAIN c.at[s])[i]
          IN  [j \in 1..Len(c.at[s][k]) |->
                 <<"assign", k, IF c.at[s][k][j] = <<>> THEN <<"">> ELSE c.at[s][k][j]>>]])

write(c) == FlattenSeq([i \in 1..Len(c.order) |-> WriteSection(c, c.order[i])])

\* Reference: the values of a key are those of the last source that assigns it.
SectionAt(src, i) ==
    LET heads == {j \in 1..i : src[j][1] = "section"}
    IN  IF heads = {} THEN Orphan ELSE src[Max(heads)][2]

Assigned(src, s, k) ==
    LET mine == {i \in 1..Len(src) : src[i][1] = "assign" /\ src[i][2] = k /\ SectionAt(src, i) = s}
        values == [i \in 1..Len(src) |->
                     IF i \in mine THEN <<IF src[i][3] = <<"">> THEN <<>> ELSE src[i][3]>> ELSE <<>>]
    IN  FlattenSeq(values)

IniReference(sources, s, k) ==
    LET having == {n \in 1..Len(sources) : Assigned(sources[n], s, k) # <<>>}
    IN  IF having = {} THEN <<>> ELSE Assigned(sources[Max(having)], s, k)

\* A file with keys before its first section cannot follow one with sections:
\* write would put them into the section before.
OrphansFirst(c) == \A i \in 2..Len(c.order) : c.order[i] # Orphan

----------------------------------------------------------------------------
(* merge_yaml: trees of at most two levels *)

Leaf(v) == [kind |-> "leaf", value |-> v]
IsDict(v) == v.kind = "dict"

Failed == [kind |-> "failed"]

\* A value over another one that is no dict: lists extend or replace, and a list
\* that is to be extended by something else is an error.
Overlay(old, new, extend) ==
    IF old.kind = "list" /\ extend
    THEN IF new.kind = "list" THEN [old EXCEPT !.value = @ \o new.value] ELSE Failed
    ELSE new

InnerReplace(conf, update, extend) == update

\* update_nested_conf one level down, and at the top.
InnerUpdate(conf, update, extend) ==
    [k \in DOMAIN conf \cup DOMAIN update |->
        IF k \notin DOMAIN update THEN conf[k]
        ELSE IF k \in DOMAIN conf THEN Overlay(conf[k], update[k], extend) ELSE update[k]]

\* A dict over something that is no dict cannot be merged: get or the assignment
\* raises, unless the dict is empty.
update_nested_conf(conf, update, extend) ==
    [k \in DOMAIN conf \cup DOMAIN update |->
        IF k \notin DOMAIN update THEN conf[k]
        ELSE IF IsDict(update[k])
        THEN LET old == Get(conf, k, [kind |-> "dict", value |-> Nothing])
             IN  IF IsDict(old) THEN [old EXCEPT !.value = InnerUpdate(@, update[k].value, extend)]
                 ELSE IF update[k].value = Nothing THEN old ELSE Failed
        ELSE IF k \in DOMAIN conf THEN Overlay(conf[k], update[k], extend) ELSE update[k]]

\* The leaves and lists of a tree by path.
Paths(tree) ==
    {<<k>> : k \in {j \in DOMAIN tree : ~IsDict(tree[j])}}
      \cup UNION {{<<k, j>> : j \in DOMAIN tree[k].value} : k \in {j \in DOMAIN tree : IsDict(tree[j])}}

ValueAt(tree, path) == IF Len(path) = 1 THEN tree[path[1]] ELSE tree[path[1]].value[path[2]]

Broken(tree) == \E q \in Paths(tree) : ValueAt(tree, q) = Failed

\* The first source that cannot be merged ends the task.
merge_yaml(sources, extend) ==
    FoldLeft(LAMBDA c, src : IF Broken(c) THEN c ELSE update_nested_conf(c, src, extend),
             Nothing, sources)

\* Reference: a path keeps the value of the last source that has it, unless a later
\* one puts something else in the place of the dict around it; lists that extend
\* are strung together from the last source on that starts afresh.
YamlReference(sources, extend, path) ==
    LET having == {n \in DOMAIN sources : path \in Paths(sources[n])}
        resets == {n \in DOMAIN sources : Len(path) = 2 /\ <<path[1]>> \in Paths(sources[n])}
        value(n) == ValueAt(sources[n], path)
        afresh == resets \cup {n \in having : ~extend \/ value(n).kind # "list"}
        since == {n \in having : \A r \in afresh : r <= n}
    IN  IF since = {} THEN <<>>
        ELSE LET last == value(Max(since)) IN
             <<IF last.kind = "list" /\ extend
               THEN [last EXCEPT !.value = FlattenSeq([n \in DOMAIN sources |->
                                              IF n \in since /\ value(n).kind = "list" THEN value(n).value ELSE <<>>])]
               ELSE last>>
=============================================================================
