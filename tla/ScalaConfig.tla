----------------------------- MODULE ScalaConfig -----------------------------
(***************************************************************************)
(* The per-directory configuration (pkg/scalaconfig/config.go and          *)
(* language/scala/configure.go): gazelle calls Configure for a directory   *)
(* before its subdirectories, Configure clones the configuration of the    *)
(* parent and applies the directives of the BUILD file.                    *)
(*                                                                         *)
(* The lists of the configuration (conflictResolvers, depsCleaners,        *)
(* implicitImports, overrides, resolveFileSymbolNames and                  *)
(* fixWildcardImportSpecs) are Go slices, and clone copies the slice, not  *)
(* the array behind it.  One such list is modelled, with the arrays in an  *)
(* explicit heap: a slice is an array and a length, all slices start at    *)
(* the first cell, and append writes in place while the array has room.    *)
(* A list of plain additions (resolve_with, resolve_file_symbol_name) has  *)
(* no "-" intents.                                                         *)
(***************************************************************************)
EXTENDS Naturals, Sequences, SequencesExt

CONSTANTS
    Dir,        \* the directories
    Order,      \* the order gazelle configures them in: parents first
    Parent,     \* [Dir -> Dir]; the root is its own parent
    Item,       \* what a list holds: resolvers, cleaners, specs
    Empty       \* the zero value of a cell nobody wrote

Intent == [want : BOOLEAN, item : Item]

ASSUME ConfigAssumption ==
    /\ Order \in Seq(Dir) /\ IsInjective(Order)
    /\ Parent \in [Dir -> Dir]
    /\ \A i \in DOMAIN Order :
        Parent[Order[i]] = Order[i] \/ \E j \in 1 .. (i - 1) : Order[j] = Parent[Order[i]]
    /\ Empty \notin Item

VARIABLES
    directives, \* the directives of each BUILD file
    heap,       \* the backing arrays, as sequences of cells
    slice,      \* [Dir -> [array, len]]: the list of each directory's Config
    inherited,  \* history: what the clone of each directory held at first
    at,         \* position in Order
    next,       \* index of the directive to apply
    panicked    \* did a slice expression go out of bounds?

vars == <<directives, heap, slice, inherited, at, next, panicked>>

NilSlice == [array |-> 0, len |-> 0]

\* The elements a slice shows in a heap.
ViewIn(h, s) == IF s.array = 0 THEN <<>> ELSE SubSeq(h[s.array], 1, s.len)

\* The list a directory's configuration has by now.
List(d) == ViewIn(heap, slice[d])

Capacity(h, s) == IF s.array = 0 THEN 0 ELSE Len(h[s.array])

\* The capacity the runtime gives to a small slice that has to grow.
Grown(cap) == IF cap = 0 THEN 1 ELSE 2 * cap

-----------------------------------------------------------------------------
\* append(s, item): in place if the array has room, else into a new array.
Append1(h, s, item) ==
    IF s.len < Capacity(h, s)
    THEN [heap |-> [h EXCEPT ![s.array][s.len + 1] = item],
          slice |-> [s EXCEPT !.len = @ + 1],
          panicked |-> FALSE]
    ELSE LET cells == [i \in 1 .. Grown(s.len) |->
                          IF i <= s.len THEN h[s.array][i]
                          ELSE IF i = s.len + 1 THEN item ELSE Empty]
         IN [heap |-> Append(h, cells),
             slice |-> [array |-> Len(h) + 1, len |-> s.len + 1],
             panicked |-> FALSE]

\* append(s[:i], s[i+1:]...), i counted from 1: shifts the cells of the array.
RemoveAt1(h, s, i) ==
    [heap |-> [h EXCEPT ![s.array] =
                  [j \in DOMAIN @ |-> IF i <= j /\ j < s.len THEN @[j + 1] ELSE @[j]]],
     slice |-> [s EXCEPT !.len = @ - 1],
     panicked |-> FALSE]

\* An iteration of the loop that removes an item: it ranges over the slice as it was at
\* first, but shifts the array under it, and indexes the slice as it is by then.
RemoveIteration(state, item, i) ==
    IF state.panicked \/ state.heap[state.slice.array][i] # item THEN state
    ELSE IF i > state.slice.len THEN [state EXCEPT !.panicked = TRUE]
    ELSE RemoveAt1(state.heap, state.slice, i)

RemoveLoop(h, s, item) ==
    FoldLeft(LAMBDA state, i : RemoveIteration(state, item, i),
             [heap |-> h, slice |-> s, panicked |-> FALSE], [i \in 1 .. s.len |-> i])

\* A slip: the item goes in front.
AddAtFront(h, s, item) ==
    LET grown == Append1(h, s, item)
    IN [grown EXCEPT !.heap[grown.slice.array] =
           [j \in DOMAIN @ |-> IF j = 1 THEN item ELSE IF j <= grown.slice.len THEN @[j - 1] ELSE @[j]]]

\* A wanted item is appended; the search for it before only leaves its own loop.
Add(h, s, item) == Append1(h, s, item)

-----------------------------------------------------------------------------
ConfigInit ==
    /\ heap = <<>>
    /\ slice = [d \in Dir |-> NilSlice]
    /\ inherited = [d \in Dir |-> <<>>]
    /\ at = 1 /\ next = 0
    /\ panicked = FALSE

Configuring == at \in DOMAIN Order /\ ~panicked

\* clone: list[:] shares the array and keeps its spare capacity.
Clone(h, s) == [heap |-> h, slice |-> s]

\* GetOrCreate: the root gets a new Config, the others a clone of their parent's.
Configure ==
    /\ Configuring
    /\ next = 0
    /\ LET d == Order[at]
           new == IF Parent[d] = d
                  THEN [heap |-> heap, slice |-> NilSlice]
                  ELSE Clone(heap, slice[Parent[d]])
       IN /\ heap' = new.heap
          /\ slice' = [slice EXCEPT ![d] = new.slice]
          /\ inherited' = [inherited EXCEPT ![d] = ViewIn(new.heap, new.slice)]
    /\ next' = 1
    /\ UNCHANGED <<directives, at, panicked>>

\* ParseDirectives, one intent.
ParseDirective ==
    /\ Configuring
    /\ next > 0
    /\ LET d == Order[at]
       IN /\ next <= Len(directives[d])
          /\ LET intent == directives[d][next]
                 result == IF intent.want
                           THEN Add(heap, slice[d], intent.item)
                           ELSE IF slice[d].array = 0
                           THEN [heap |-> heap, slice |-> slice[d], panicked |-> FALSE]
                           ELSE RemoveLoop(heap, slice[d], intent.item)
             IN /\ heap' = result.heap
                /\ slice' = [slice EXCEPT ![d] = result.slice]
                /\ panicked' = result.panicked
    /\ next' = next + 1
    /\ UNCHANGED <<directives, inherited, at>>

Configured ==
    /\ Configuring
    /\ next > Len(directives[Order[at]])
    /\ at' = at + 1
    /\ next' = 0
    /\ UNCHANGED <<directives, heap, slice, inherited, panicked>>

-----------------------------------------------------------------------------
(***************************************************************************)
(* What the directives say.                                                *)
(***************************************************************************)
Applied(list, intent) ==
    IF ~intent.want THEN RemoveFirst(list, intent.item)
    ELSE IF Contains(list, intent.item) THEN list
    ELSE Append(list, intent.item)

Says(list, intents) == FoldLeft(Applied, list, intents)

\* Directories whose Configure returned.
Done == {Order[i] : i \in {j \in DOMAIN Order : j < at}}

\* The list of a directory by the directives of its ancestors and itself alone.
Meant ==
    LET meant[i \in 0 .. Len(Order)] ==
            IF i = 0 THEN [d \in Dir |-> <<>>]
            ELSE LET d == Order[i]
                 IN [meant[i - 1] EXCEPT ![d] =
                        Says(IF Parent[d] = d THEN <<>> ELSE meant[i - 1][Parent[d]], directives[d])]
    IN meant[Len(Order)]

\* The list of a directory never holds an item twice while its directives apply.
NoRepeats(d) ==
    /\ IsInjective(inherited[d])
    /\ \A k \in DOMAIN directives[d] :
        directives[d][k].want =>
            ~Contains(Says(inherited[d], SubSeq(directives[d], 1, k - 1)), directives[d][k].item)

\* Where no item is listed twice, Configure of a directory does not panic, and when
\* it returns the list is what the directives make of the list that was inherited,
\* although the removal loop shifts the array that it ranges over.
ConfigureObeysDirectives ==
    \A d \in Dir :
        at <= Len(Order) /\ Order[at] = d /\ next > 0 /\ NoRepeats(d) =>
            /\ ~panicked
            /\ next > Len(directives[d]) => List(d) = Says(inherited[d], directives[d])

OnlyAdditions == \A d \in Dir : \A k \in DOMAIN directives[d] : directives[d][k].want

\* The directives of a directory do not reach the configuration of the directory
\* above it, which generates and resolves its own rules only later.  The arrays are
\* shared: this is so only where nothing is removed.
ParentKept ==
    [][OnlyAdditions =>
        \A d \in Dir :
            at \in DOMAIN Order /\ d = Parent[Order[at]] /\ d # Order[at] => List(d)' = List(d)]_vars

\* Each directory ends up with the list that its own and its ancestors' directives
\* say, whatever was configured next to it ("clone copies this config to a new
\* one", config.go:223).
ListAsMeant == at > Len(Order) => \A d \in Dir : List(d) = Meant[d]
=============================================================================
