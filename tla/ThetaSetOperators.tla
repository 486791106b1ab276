------------------------ MODULE ThetaSetOperators -------------------------
(***************************************************************************)
(* The set operators of theta and tuple sketches: union, intersection and  *)
(* difference.                                                             *)
(***************************************************************************)
EXTENDS ThetaCompact

CONSTANTS LgNom, RF, StartTheta

ASSUME UnionBuilder ==
  LgNom \in Nat /\ RF \in RESIZE_FACTORS /\ StartTheta \in 1 .. MAX_THETA

-----------------------------------------------------------------------------
(***************************************************************************)
(* theta_union and tuple_union: a hash table plus union_theta_, the        *)
(* smallest threshold of the sketches absorbed.  The table's own threshold *)
(* moves separately when it rebuilds, so keys at or above union_theta_ may *)
(* stay in the table and get_result has to drop them.  A union is a        *)
(* record; `members' is the union of what the absorbed sketches stand for  *)
(* and `absorbed' says whether there was a non-empty one.  Outcomes are    *)
(* sets: nth_element leaves the order of what it keeps open.               *)
(***************************************************************************)
(* what a builder with these settings builds                               *)
union_of(lg_k, rf, theta) ==
  [kind |-> "union", union_theta |-> theta, members |-> NoMembers, absorbed |-> FALSE,
   table |-> hash_table(starting_sub_multiple(lg_k + 1, MIN_LG_K, rf),
                        lg_k, rf, theta, TRUE)]

theta_union == union_of(LgNom, RF, StartTheta)

(***************************************************************************)
(* One turn of the loop of update(): st is the table and whether the early *)
(* stop was taken.  An insert can rebuild and lower the table's threshold  *)
(* under the remaining entries.                                            *)
(***************************************************************************)
Absorb_no_table_screen(st, e, limit, ordered) ==
  IF st.stop THEN {st}
  ELSE IF extract_key(e) < limit
    THEN LET r == find(st.t.ent, st.t.lg_cur, extract_key(e))
         IN IF r.found THEN {[st EXCEPT !.t.ent[r.at][2] = policy(@, e[2])]}
            ELSE {[t |-> t, stop |-> FALSE] : t \in insert(st.t, r.at, e)}
    ELSE {[st EXCEPT !.stop = ordered]}

Absorb_keeps_first(st, e, limit, ordered) ==
  IF st.stop THEN {st}
  ELSE IF extract_key(e) < limit /\ extract_key(e) < st.t.theta
    THEN LET r == find(st.t.ent, st.t.lg_cur, extract_key(e))
         IN IF r.found THEN {st}
            ELSE {[t |-> t, stop |-> FALSE] : t \in insert(st.t, r.at, e)}
    ELSE {[st EXCEPT !.stop = ordered]}

Absorb(st, e, limit, ordered) ==
  IF st.stop THEN {st}
  ELSE IF extract_key(e) < limit /\ extract_key(e) < st.t.theta
    THEN LET r == find(st.t.ent, st.t.lg_cur, extract_key(e))
         IN IF r.found THEN {[st EXCEPT !.t.ent[r.at][2] = policy(@, e[2])]}
            ELSE {[t |-> t, stop |-> FALSE] : t \in insert(st.t, r.at, e)}
    ELSE {[st EXCEPT !.stop = ordered]}

(* members of a union: those of either side, the policy combines the       *)
(* summaries of common ones                                                *)
Joined(m, n) ==
  [h \in DOMAIN m \cup DOMAIN n |->
     IF h \notin DOMAIN n THEN m[h]
     ELSE IF h \notin DOMAIN m THEN n[h] ELSE policy(m[h], n[h])]

(* update(): an empty sketch is ignored before its seed is looked at; a    *)
(* seed mismatch throws and leaves the union as it was                     *)
union_update(u, c) ==
  LET limit == MinOf(u.union_theta, c.theta)
      start == [t |-> [u.table EXCEPT !.is_empty = FALSE], stop |-> FALSE]
      outcomes == FoldLeft(
        LAMBDA sts, e : UNION {Absorb(st, e, limit, c.is_ordered) : st \in sts},
        {start}, c.entries)
  IN IF c.is_empty \/ c.seed # Seed THEN {u}
     ELSE {[u EXCEPT !.table = st.t, !.union_theta = MinOf(limit, st.t.theta),
                     !.members = Joined(@, c.members), !.absorbed = TRUE] :
             st \in outcomes}

union_reset(u) ==
  [u EXCEPT !.table = reset(@, StartTheta), !.union_theta = StartTheta,
            !.members = NoMembers, !.absorbed = FALSE]

(***************************************************************************)
(* get_result(): the keys below both thresholds, cut to the nominal size.  *)
(***************************************************************************)
union_get_result_no_cut(u, ordered) ==
  LET theta   == MinOf(u.union_theta, u.table.theta)
      entries == SelectSeq(Iterate(u.table), LAMBDA e : extract_key(e) < theta)
  IN {compact_theta_sketch(u.table.is_empty, ordered, Seed, theta,
        IF ordered THEN SortedSeq(ToSet(entries)) ELSE entries, u.members)}

union_get_result(u, ordered) ==
  LET theta   == MinOf(u.union_theta, u.table.theta)
      entries == IF u.union_theta >= u.table.theta THEN Iterate(u.table)
                 ELSE SelectSeq(Iterate(u.table), LAMBDA e : extract_key(e) < theta)
      all     == ToSet(entries)
      pivot   == NthElement(all, 2^u.table.lg_nom)
      vec(S)  == IF ordered THEN {SortedSeq(S)} ELSE SetToSeqs(S)
  IN IF u.table.is_empty
       THEN {compact_theta_sketch(TRUE, TRUE, Seed, u.union_theta, << >>, u.members)}
     ELSE IF Len(entries) > 2^u.table.lg_nom
       THEN {compact_theta_sketch(FALSE, ordered, Seed, extract_key(pivot), e, u.members) :
               e \in vec(Smaller(all, pivot))}
     ELSE {compact_theta_sketch(FALSE, ordered, Seed, theta,
             IF ordered THEN SortedSeq(all) ELSE entries, u.members)}

-----------------------------------------------------------------------------
(***************************************************************************)
(* theta_intersection and tuple_intersection: a table that starts as       *)
(* "everything" (not valid, no array) and shrinks with every sketch.  An   *)
(* intersection is a record; `members' is the intersection of what the     *)
(* absorbed sketches stand for; `corrupted' records that an input was      *)
(* refused as "possibly corrupted".                                        *)
(***************************************************************************)
NoTable(theta, is_empty) == hash_table(0, 0, 0, theta, is_empty)

theta_intersection ==
  [kind |-> "intersection", table |-> NoTable(MAX_THETA, FALSE),
   is_valid |-> FALSE, members |-> NoMembers, corrupted |-> FALSE]

(* the table for a known number of keys: one size up, so that inserting    *)
(* them reaches neither resize() nor rebuild()                             *)
TableOf_no_probe(entries, theta, is_empty) ==
  LET lg == lg_size_from_count(Len(entries))
  IN {FoldLeft(LAMBDA t, e : [t EXCEPT !.ent[extract_key(e) % 2^lg] = e, !.num = @ + 1],
               hash_table(lg, lg - 1, 0, theta, is_empty), entries)}

TableOf(entries, theta, is_empty) ==
  LET lg == lg_size_from_count(Len(entries))
  IN FoldLeft(LAMBDA ts, e :
                UNION {insert(t, find(t.ent, t.lg_cur, extract_key(e)).at, e) : t \in ts},
              {hash_table(lg, lg - 1, 0, theta, is_empty)}, entries)

(* the first sketch is copied; a repeated key is a corrupted sketch        *)
CopyFirst(x, c, theta) ==
  {[x EXCEPT !.table = t,
             !.corrupted = \/ Cardinality(ToSet(c.entries)) # Len(c.entries)
                           \/ t.num # Len(c.entries)] :
     t \in TableOf(c.entries, theta, FALSE)}

(* later sketches: the entries found in the table, with what the policy    *)
(* makes of their summaries, rebuilt into a table of their own.  With no   *)
(* match in exact mode the intersection is empty.                          *)
Matched_copies_incoming(x, c, theta) ==
  LET at(e) == find(x.table.ent, x.table.lg_cur, extract_key(e))
  IN SelectSeq(Scan(c, theta), LAMBDA e : at(e).found)

Matched(x, c, theta) ==
  LET at(e)    == find(x.table.ent, x.table.lg_cur, extract_key(e))
      found    == SelectSeq(Scan(c, theta), LAMBDA e : at(e).found)
  IN [i \in DOMAIN found |->
        Entry(extract_key(found[i]),
              policy(x.table.ent[at(found[i]).at][2], found[i][2]))]

Intersect_limit_off_by_one(x, c, theta) ==
  LET matched == Matched(x, c, theta)
  IN {[x EXCEPT !.table = t,
                !.corrupted = Len(matched) >= MinOf(x.table.num, Len(c.entries))] :
        t \in IF matched = << >> THEN {NoTable(theta, theta = MAX_THETA)}
              ELSE TableOf(matched, theta, FALSE)}

Intersect(x, c, theta) ==
  LET matched == Matched(x, c, theta)
  IN {[x EXCEPT !.table = t,
                !.corrupted = Len(matched) > MinOf(x.table.num, Len(c.entries))] :
        t \in IF matched = << >> THEN {NoTable(theta, theta = MAX_THETA)}
              ELSE TableOf(matched, theta, FALSE)}

(* members of an intersection: the common ones                             *)
Common(m, n) == [h \in DOMAIN m \cap DOMAIN n |-> policy(m[h], n[h])]

NewTheta(t, c) == IF c.is_empty THEN MAX_THETA ELSE MinOf(t.theta, c.theta)

(***************************************************************************)
(* update(): an intersection already known to be empty ignores its input,  *)
(* a seed mismatch of a non-empty sketch throws before anything changes.   *)
(***************************************************************************)
intersection_update(x, c) ==
  LET theta == NewTheta(x.table, c)
      y     == [x EXCEPT !.is_valid = TRUE,
                         !.members = IF x.is_valid THEN Common(@, c.members)
                                     ELSE c.members]
  IN IF x.table.is_empty \/ (~c.is_empty /\ c.seed # Seed) THEN {x}
     ELSE IF x.is_valid /\ x.table.num = 0
       THEN {[y EXCEPT !.table.is_empty = c.is_empty, !.table.theta = theta]}
     ELSE IF c.entries = << >> THEN {[y EXCEPT !.table = NoTable(theta, c.is_empty)]}
     ELSE IF ~x.is_valid THEN CopyFirst(y, c, theta)
     ELSE Intersect(y, c, theta)

intersection_get_result(x, ordered) ==
  compact_theta_sketch(x.table.is_empty, ordered, Seed, x.table.theta,
    IF ordered THEN SortedSeq(Entries(x.table)) ELSE Iterate(x.table), x.members)

-----------------------------------------------------------------------------
(***************************************************************************)
(* theta_a_not_b and tuple_a_not_b: compute(a, b) is a function of two     *)
(* sketches; the entries of the result are a's, with their summaries.      *)
(***************************************************************************)
(***************************************************************************)
(* The table of the hash-based branch holds keys only.  It has             *)
(* lg_nom = lg_cur and resize factor X1: past half full, each insert       *)
(* re-inserts everything into an array of the same size.                   *)
(***************************************************************************)
TableOfB(b, theta) ==
  LET lg == lg_size_from_count(Len(b.entries))
      insert_key(t, h) ==
        CHOOSE u \in insert(t, find(t.ent, lg, h).at, Entry(h, NoSummary)) : TRUE
  IN FoldLeft(LAMBDA t, e : insert_key(t, extract_key(e)),
              hash_table(lg, lg, 0, 1, TRUE), Scan(b, theta))

(* the branches of compute() that select entries of x: b without entries,  *)
(* std::set_difference of two ordered sketches, look-up in a table of b    *)
Difference_of_entries(x, b, theta) ==
  SelectSeq(Scan(x, theta), LAMBDA e : e \notin ToSet(b.entries))

Difference(x, b, theta) ==
  LET t    == TableOfB(b, theta)
      in_b == {extract_key(e) : e \in ToSet(b.entries)}
  IN IF b.entries = << >>
       THEN SelectSeq(x.entries, LAMBDA e : extract_key(e) < theta)
     ELSE IF x.is_ordered /\ b.is_ordered
       THEN SelectSeq(x.entries, LAMBDA e : /\ extract_key(e) < theta
                                            /\ extract_key(e) \notin in_b)
     ELSE SelectSeq(Scan(x, theta),
                    LAMBDA e : ~find(t.ent, t.lg_cur, extract_key(e)).found)

(* members of a difference                                                 *)
Without(m, n) == [h \in DOMAIN m \ DOMAIN n |-> m[h]]

(* compute(): the two early returns hand back x itself                     *)
compute_never_empty(x, b, ordered) ==
  LET theta   == MinOf(x.theta, b.theta)
      entries == Difference(x, b, theta)
  IN compact_theta_sketch(x.is_empty, x.is_ordered \/ ordered, Seed, theta,
       IF ordered /\ ~x.is_ordered THEN SortedSeq(ToSet(entries)) ELSE entries,
       Without(x.members, b.members))

compute(x, b, ordered) ==
  LET theta   == MinOf(x.theta, b.theta)
      entries == Difference(x, b, theta)
  IN IF x.is_empty \/ (x.entries # << >> /\ b.is_empty) THEN compact(x, ordered)
     ELSE compact_theta_sketch(entries = << >> /\ theta = MAX_THETA,
       x.is_ordered \/ ordered, Seed, theta,
       IF ordered /\ ~x.is_ordered THEN SortedSeq(ToSet(entries)) ELSE entries,
       Without(x.members, b.members))

(* a foreign seed of b throws, unless an early return came first           *)
compute_throws(x, b) ==
  b.seed # Seed /\ ~x.is_empty /\ (x.entries = << >> \/ ~b.is_empty)
=============================================================================
