------------------------- MODULE TreeSitterLifetime -------------------------
(***************************************************************************)
(* The native resources behind the Tree-sitter handles (c/): grammars,     *)
(* parsers, trees, nodes, queries and cursors, made, used and closed by    *)
(* the threads of the program while the atom collector releases the        *)
(* handles nobody can reach.                                               *)
(*                                                                         *)
(* A section under a resource's mutex is one step together with the native *)
(* delete it decides on: the pointers are cleared in the section, so that  *)
(* nobody else can reach what is deleted after it.  A release of another   *)
(* resource that follows it is a step of its own, owed by the thread.      *)
(***************************************************************************)
EXTENDS Naturals, Sequences, FiniteSets

CONSTANTS
    Thread,     \* Prolog threads
    Collector,  \* the thread of the atom garbage collector
    Language, Parser, Tree, Node, Query, Cursor,    \* resources
    None        \* NULL

ASSUME CollectorAssumption == Collector \notin Thread

Handle == Language \cup Parser \cup Tree \cup Node \cup Query \cup Cursor
Counting == Language \cup Tree \cup Query
Affine == Parser \cup Tree \cup Cursor

ASSUME NoneAssumption == None \notin Handle

\* A handle is of one kind: each kind is a blob type of its own.
Kinds == <<Language, Parser, Tree, Node, Query, Cursor>>

ASSUME KindAssumption == \A i, j \in DOMAIN Kinds : i # j => Kinds[i] \cap Kinds[j] = {}

VARIABLES
    life,       \* "none", "held", "dropped" by the program, "collected"
    open,       \* public_open, open
    native,     \* whether the object of libtree-sitter, or the library, exists
    count,      \* dependents, node_refs
    language,   \* the grammar a parser, tree or query points to
    tree,       \* the tree a node or cursor points to
    query,      \* the query a cursor points to
    owner,      \* owner_thread
    call,       \* the call each thread is in the middle of
    owed        \* the releases it has still to make, in order

resources == <<life, open, native, count>>
pointers == <<language, tree, query>>
vars == <<resources, pointers, owner, call, owed>>

Idle(th) == call[th] = <<>> /\ owed[th] = <<>>
Held(x) == life[x] = "held"
Usable(th, x) == Held(x) /\ open[x] /\ owner[x] = th
NodeUsable(th, n) == Held(n) /\ native[tree[n]] /\ open[tree[n]] /\ owner[tree[n]] = th

\* The release of what a pointer points to, if anything.
Some(x) == IF x = None THEN <<>> ELSE <<x>>

Owe(th, s) == owed' = [owed EXCEPT ![th] = s]
Enter(th, c) == call' = [call EXCEPT ![th] = c]
Return(th) == Enter(th, <<>>)

\* unify_language/2 and its like: the handle reaches the program, or does not
\* unify and is left to the collector.
Publish(x) == \E l \in {"held", "dropped"} : life' = [life EXCEPT ![x] = l]

\* A mutant: closing does not wait for those that use the object.
RetiresAtOnce(n, isOpen) == ~isOpen

\* language_retire_locked, query_retire_locked: is the native object deleted, and
\* is the resource freed, with n dependents, open or not, reachable or not?
Retires(n, isOpen) == ~isOpen /\ n = 0

\* A mutant: the resource goes with its handle.
FreesAtOnce(n, l) == l = "collected"

Frees(n, l) == l = "collected" /\ n = 0

\* A locked section that leaves x with n dependents, isOpen and reachability l:
\* what retires is deleted, the grammar of a query then owed before `rest'.
Settle(th, x, n, isOpen, l, rest) ==
    LET retired == native[x] /\ Retires(n, isOpen)
        freed == Frees(n, l)
    IN /\ count' = [count EXCEPT ![x] = n]
       /\ open' = [open EXCEPT ![x] = isOpen]
       /\ native' = [native EXCEPT ![x] = @ /\ ~retired]
       /\ life' = [life EXCEPT ![x] = IF freed THEN "none" ELSE l]
       /\ IF x \in Query /\ retired
          THEN /\ Owe(th, Some(language[x]) \o rest)
               /\ language' = [language EXCEPT ![x] = None]
          ELSE Owe(th, rest) /\ UNCHANGED language
       /\ UNCHANGED owner

\* tree_release_node, release_tree_blob: a tree is deleted when it goes.
SettleTree(th, t, n, l, rest) ==
    LET freed == Frees(n, l) IN
    /\ count' = [count EXCEPT ![t] = n]
    /\ life' = [life EXCEPT ![t] = IF freed THEN "none" ELSE l]
    /\ open' = [open EXCEPT ![t] = @ /\ ~freed]
    /\ native' = [native EXCEPT ![t] = @ /\ ~freed]
    /\ language' = [language EXCEPT ![t] = IF freed THEN None ELSE @]
    /\ owner' = [owner EXCEPT ![t] = IF freed THEN None ELSE @]
    /\ Owe(th, IF freed THEN Some(language[t]) \o rest ELSE rest)

\* A fresh resource x whose creator is th.
Make(th, x) ==
    /\ life[x] = "none"
    /\ Publish(x)
    /\ open' = [open EXCEPT ![x] = TRUE]
    /\ native' = [native EXCEPT ![x] = TRUE]
    /\ owner' = [owner EXCEPT ![x] = IF x \in Affine THEN th ELSE None]

-----------------------------------------------------------------------------
(* Grammars and parsers.                                                   *)

\* pl_ts_language_load
LoadLanguage(th, l) ==
    /\ Idle(th) /\ Make(th, l)
    /\ UNCHANGED <<count, pointers, call, owed>>

\* pl_ts_language_close, language_close_public
CloseLanguage(th, l) ==
    /\ Idle(th) /\ Held(l) /\ open[l]
    /\ Settle(th, l, count[l], FALSE, life[l], <<>>)
    /\ UNCHANGED <<tree, query, call>>

\* pl_ts_parser_create
CreateParser(th, p) ==
    /\ Idle(th) /\ Make(th, p)
    /\ UNCHANGED <<count, pointers, call, owed>>

\* language_retain
Retain(l, requireOpen) ==
    /\ native[l] /\ (requireOpen => open[l])
    /\ count' = [count EXCEPT ![l] = @ + 1]

\* pl_ts_parser_set_language, up to ts_parser_set_language
SetLanguage(th, p, l) ==
    /\ Idle(th) /\ Usable(th, p) /\ Held(l)
    /\ Retain(l, TRUE)
    /\ Enter(th, <<"set", p, l>>)
    /\ UNCHANGED <<life, open, native, pointers, owner, owed>>

\* ... which accepts the grammar or not; the previous one is released.
LanguageSet(th) ==
    /\ call[th] # <<>> /\ call[th][1] = "set"
    /\ LET p == call[th][2]
           l == call[th][3]
       IN \/ /\ language' = [language EXCEPT ![p] = l]
             /\ Owe(th, Some(language[p]))
          \/ Owe(th, <<l>>) /\ UNCHANGED language
    /\ Return(th)
    /\ UNCHANGED <<resources, tree, query, owner>>

\* pl_ts_parser_close
CloseParser(th, p) ==
    /\ Idle(th) /\ Usable(th, p)
    /\ open' = [open EXCEPT ![p] = FALSE]
    /\ native' = [native EXCEPT ![p] = FALSE]
    /\ language' = [language EXCEPT ![p] = None]
    /\ Owe(th, Some(language[p]))
    /\ UNCHANGED <<life, count, tree, query, owner, call>>

-----------------------------------------------------------------------------
(* Trees and nodes.                                                        *)

\* pl_ts_parse_string, up to ts_parser_parse
Parse(th, p) ==
    /\ Idle(th) /\ Usable(th, p) /\ language[p] # None
    /\ Enter(th, <<"parse", p>>)
    /\ UNCHANGED <<resources, pointers, owner, owed>>

\* ... which fails or is interrupted, or the grammar cannot be retained, or it
\* makes a tree.
Parsed(th) ==
    /\ call[th] # <<>> /\ call[th][1] = "parse"
    /\ Return(th)
    /\ LET p == call[th][2] IN
       \/ UNCHANGED <<resources, language, owner>>
       \/ \E t \in Tree :
            /\ Make(th, t)
            /\ Retain(language[p], FALSE)
            /\ language' = [language EXCEPT ![t] = language[p]]
    /\ UNCHANGED <<tree, query, owed>>

\* unify_node: a node of t
UnifyNode(n, t) ==
    /\ life[n] = "none"
    /\ Publish(n)
    /\ count' = [count EXCEPT ![t] = @ + 1]
    /\ tree' = [tree EXCEPT ![n] = t]
    /\ UNCHANGED <<open, native, language, query, owner, call, owed>>

\* pl_ts_tree_root
Root(th, t, n) == Idle(th) /\ Usable(th, t) /\ UnifyNode(n, t)

\* pl_ts_node_child and the other walks from one node to another
Walk(th, n, m) == Idle(th) /\ NodeUsable(th, n) /\ UnifyNode(m, tree[n])

\* A mutant: the handle stays open.
CloseTreeStillOpen(th, t) ==
    /\ Idle(th) /\ Usable(th, t)
    /\ native' = [native EXCEPT ![t] = FALSE]
    /\ language' = [language EXCEPT ![t] = None]
    /\ Owe(th, Some(language[t]))
    /\ UNCHANGED <<life, open, count, tree, query, owner, call>>

\* pl_ts_tree_close
CloseTree(th, t) ==
    /\ Idle(th) /\ Usable(th, t)
    /\ open' = [open EXCEPT ![t] = FALSE]
    /\ native' = [native EXCEPT ![t] = FALSE]
    /\ language' = [language EXCEPT ![t] = None]
    /\ Owe(th, Some(language[t]))
    /\ UNCHANGED <<life, count, tree, query, owner, call>>

-----------------------------------------------------------------------------
(* Queries and cursors.                                                    *)

\* pl_ts_query_compile, up to ts_query_new
Compile(th, l) ==
    /\ Idle(th) /\ Held(l)
    /\ Retain(l, TRUE)
    /\ Enter(th, <<"compile", l>>)
    /\ UNCHANGED <<life, open, native, pointers, owner, owed>>

\* ... which makes a query, or there is an error in it.
Compiled(th) ==
    /\ call[th] # <<>> /\ call[th][1] = "compile"
    /\ Return(th)
    /\ LET l == call[th][2] IN
       \/ Owe(th, <<l>>) /\ UNCHANGED <<resources, language, owner>>
       \/ \E q \in Query :
            /\ Make(th, q)
            /\ language' = [language EXCEPT ![q] = l]
            /\ UNCHANGED <<count, owed>>
    /\ UNCHANGED <<tree, query>>

\* pl_ts_query_close, by any thread
CloseQuery(th, q) ==
    /\ Idle(th) /\ Held(q) /\ open[q]
    /\ Settle(th, q, count[q], FALSE, life[q], <<>>)
    /\ UNCHANGED <<tree, query, call>>

\* pl_ts_query_cursor_create
CreateCursor(th, c) ==
    /\ Idle(th) /\ Make(th, c)
    /\ UNCHANGED <<count, pointers, call, owed>>

\* pl_ts_query_cursor_exec, up to PL_handle_signals: the query is retained if
\* the cursor is not at it already.
Exec(th, c, q, n) ==
    /\ Idle(th) /\ Usable(th, c) /\ Held(q) /\ NodeUsable(th, n)
    /\ open[q] /\ native[q]
    /\ count' = IF query[c] = q THEN count ELSE [count EXCEPT ![q] = @ + 1]
    /\ Enter(th, <<"exec", c, q, n>>)
    /\ UNCHANGED <<life, open, native, pointers, owner, owed>>

\* A mutant: the tree the cursor was at stays retained.
ExecutedKeeping(th) ==
    /\ call[th] # <<>> /\ call[th][1] = "exec"
    /\ Return(th)
    /\ LET c == call[th][2]
           q == call[th][3]
           t == tree[call[th][4]]
       IN /\ count' = [count EXCEPT ![t] = @ + 1]
          /\ tree' = [tree EXCEPT ![c] = t]
          /\ query' = [query EXCEPT ![c] = q]
          /\ Owe(th, IF query[c] # q THEN Some(query[c]) ELSE <<>>)
    /\ UNCHANGED <<life, open, native, language, owner>>

\* ... which raises, or the cursor is moved to the query and the node's tree.
Executed(th) ==
    /\ call[th] # <<>> /\ call[th][1] = "exec"
    /\ Return(th)
    /\ LET c == call[th][2]
           q == call[th][3]
           t == tree[call[th][4]]
           changed == query[c] # q
       IN \/ /\ Owe(th, IF changed THEN <<q>> ELSE <<>>)
             /\ UNCHANGED <<count, tree, query>>
          \/ /\ count' = [count EXCEPT ![t] = @ + 1]
             /\ tree' = [tree EXCEPT ![c] = t]
             /\ query' = [query EXCEPT ![c] = q]
             /\ Owe(th, (IF changed THEN Some(query[c]) ELSE <<>>) \o Some(tree[c]))
    /\ UNCHANGED <<life, open, native, language, owner>>

\* pl_ts_query_next_match, pl_ts_query_next_capture: a node of the cursor's tree
NextMatch(th, c, n) ==
    Idle(th) /\ Usable(th, c) /\ tree[c] # None /\ UnifyNode(n, tree[c])

\* pl_ts_query_cursor_close
CloseCursor(th, c) ==
    /\ Idle(th) /\ Usable(th, c)
    /\ open' = [open EXCEPT ![c] = FALSE]
    /\ native' = [native EXCEPT ![c] = FALSE]
    /\ query' = [query EXCEPT ![c] = None]
    /\ tree' = [tree EXCEPT ![c] = None]
    /\ Owe(th, Some(query[c]) \o Some(tree[c]))
    /\ UNCHANGED <<life, count, language, owner, call>>

-----------------------------------------------------------------------------
(* Releases and collection.                                                *)

\* A mutant: the last release retires nothing.
ReleaseOnly(th) ==
    /\ owed[th] # <<>>
    /\ count' = [count EXCEPT ![Head(owed[th])] = @ - 1]
    /\ Owe(th, Tail(owed[th]))
    /\ UNCHANGED <<life, open, native, pointers, owner, call>>

\* language_release, query_release, tree_release_node
Release(th) ==
    /\ owed[th] # <<>>
    /\ LET x == Head(owed[th])
           n == IF count[x] > 0 THEN count[x] - 1 ELSE 0
       IN IF x \in Tree THEN SettleTree(th, x, n, life[x], Tail(owed[th]))
                        ELSE Settle(th, x, n, open[x], life[x], Tail(owed[th]))
    /\ UNCHANGED <<tree, query, call>>

\* The program lets go of a handle that no call of its threads uses.
Drop(x) ==
    /\ Held(x)
    /\ \A th \in Thread : \A i \in DOMAIN call[th] : call[th][i] # x
    /\ life' = [life EXCEPT ![x] = "dropped"]
    /\ UNCHANGED <<open, native, count, pointers, owner, call, owed>>

\* release_language_blob, release_query_blob, release_tree_blob
CollectCounting(x) ==
    /\ IF x \in Tree THEN SettleTree(Collector, x, count[x], "collected", <<>>)
                     ELSE Settle(Collector, x, count[x], FALSE, "collected", <<>>)
    /\ UNCHANGED <<tree, query, call>>

\* release_parser_blob, release_node_blob, release_query_cursor_blob
CollectPlain(x) ==
    /\ life' = [life EXCEPT ![x] = "none"]
    /\ open' = [open EXCEPT ![x] = FALSE]
    /\ native' = [native EXCEPT ![x] = FALSE]
    /\ language' = [language EXCEPT ![x] = None]
    /\ tree' = [tree EXCEPT ![x] = None]
    /\ query' = [query EXCEPT ![x] = None]
    /\ owner' = [owner EXCEPT ![x] = None]
    /\ Owe(Collector, Some(language[x]) \o Some(query[x]) \o Some(tree[x]))
    /\ UNCHANGED <<count, call>>

Collect(x) ==
    /\ Idle(Collector) /\ life[x] = "dropped"
    /\ IF x \in Counting THEN CollectCounting(x) ELSE CollectPlain(x)

-----------------------------------------------------------------------------
Init ==
    /\ life = [x \in Handle |-> "none"]
    /\ open = [x \in Handle |-> FALSE]
    /\ native = [x \in Handle |-> FALSE]
    /\ count = [x \in Counting |-> 0]
    /\ language = [x \in Handle |-> None]
    /\ tree = [x \in Handle |-> None]
    /\ query = [x \in Handle |-> None]
    /\ owner = [x \in Handle |-> None]
    /\ call = [th \in Thread \cup {Collector} |-> <<>>]
    /\ owed = [th \in Thread \cup {Collector} |-> <<>>]

Create(th) ==
    \/ \E l \in Language : LoadLanguage(th, l) \/ Compile(th, l)
    \/ \E p \in Parser : CreateParser(th, p) \/ Parse(th, p)
    \/ \E p \in Parser, l \in Language : SetLanguage(th, p, l)
    \/ \E c \in Cursor : CreateCursor(th, c)

Navigate(th) ==
    \/ \E n \in Node, t \in Tree : Root(th, t, n)
    \/ \E n, m \in Node : Walk(th, n, m)
    \/ \E c \in Cursor, q \in Query, n \in Node : Exec(th, c, q, n)
    \/ \E c \in Cursor, n \in Node : NextMatch(th, c, n)

Close(th) ==
    \/ \E l \in Language : CloseLanguage(th, l)
    \/ \E p \in Parser : CloseParser(th, p)
    \/ \E t \in Tree : CloseTree(th, t)
    \/ \E q \in Query : CloseQuery(th, q)
    \/ \E c \in Cursor : CloseCursor(th, c)

\* A thread goes on in the call it is in.
Continue(th) == LanguageSet(th) \/ Parsed(th) \/ Compiled(th) \/ Executed(th) \/ Release(th)

Next ==
    \/ \E th \in Thread : Create(th) \/ Navigate(th) \/ Close(th) \/ Continue(th)
    \/ Release(Collector)
    \/ \E x \in Handle : Drop(x) \/ Collect(x)

Spec == Init /\ [][Next]_vars

\* Calls return, and the collector comes to every handle that was let go.
Fairness ==
    /\ \A th \in Thread : WF_vars(Continue(th))
    /\ WF_vars(Release(Collector))
    /\ \A x \in Handle : WF_vars(Collect(x))

FairSpec == Spec /\ Fairness

-----------------------------------------------------------------------------
(* Properties.                                                             *)

\* Who has retained x: the resources that point to it, ...
Points(y, x) == x \in {language[y], tree[y], query[y]}
Pointing(x) == {y \in Handle : Points(y, x)}

\* ... the calls that have still to store it or to release it, ...
Holds(th, x) ==
    /\ call[th] # <<>>
    /\ \/ call[th][1] = "set" /\ call[th][3] = x
       \/ call[th][1] = "compile" /\ call[th][2] = x
       \/ call[th][1] = "exec" /\ call[th][3] = x /\ query[call[th][2]] # x
Holding(x) == {th \in Thread : Holds(th, x)}

\* ... and the releases that are owed.
Places(s, x) == {i \in DOMAIN s : s[i] = x}
Debts(x) == UNION {{th} \X Places(owed[th], x) : th \in Thread \cup {Collector}}

Used(x) == Pointing(x) # {} \/ Holding(x) # {} \/ Debts(x) # {}

\* Types.  A handle that is open has its native object, and only what the
\* program can still name, or what is retained, exists.
TypeOK ==
    /\ life \in [Handle -> {"none", "held", "dropped", "collected"}]
    /\ open \in [Handle -> BOOLEAN]
    /\ native \in [Handle -> BOOLEAN]
    /\ count \in [Counting -> Nat]
    /\ language \in [Handle -> Language \cup {None}]
    /\ tree \in [Handle -> Tree \cup {None}]
    /\ query \in [Handle -> Query \cup {None}]
    /\ owner \in [Handle -> Thread \cup {None}]
    /\ \A x \in Handle : /\ open[x] => native[x]
                         /\ native[x] => life[x] # "none"

\* The counter of a grammar, tree or query (language_retain, tree_retain_node,
\* query_retain and their releases) is the number of those that rely on it,
\* across every early return and every switch of a parser or cursor.
CountsAreExact ==
    \A x \in Counting :
        count[x] = Cardinality(Pointing(x)) + Cardinality(Holding(x)) + Cardinality(Debts(x))

\* The library of a grammar stays mapped, and a query compiled, as long as it is
\* open or anybody uses it, and no longer (language_retire_locked,
\* query_retire_locked).
OutlivesItsUsers ==
    \A x \in Language \cup Query : native[x] <=> open[x] \/ Used(x)

\* No resource is freed while another one, a call or a pending release points to
\* it (the free_now decisions of rlm_tree_sitter_lifetime.c).
NothingDangles == \A x \in Counting : Used(x) => life[x] # "none"

\* When the program has let go of every handle, in whatever order, and makes no
\* other, everything is freed and every library is unmapped (release_*_blob).
EverythingIsReclaimed ==
    (/\ <>[](\A x \in Handle : life[x] # "held")
     /\ <>[][\A th \in Thread : ~Create(th) /\ ~Navigate(th)]_vars)
        => <>[](\A x \in Handle : life[x] = "none" /\ ~native[x])

\* docs/tree-sitter-ffi.md:143: once its tree is closed, nothing walks it any more.
CursorsReadOpenTrees ==
    [][\A th \in Thread, c \in Cursor, n \in Node :
         NextMatch(th, c, n) => native[tree[c]]]_vars
=============================================================================
