------------------------------- MODULE Favorites -------------------------------
(***************************************************************************)
(* The favorites of one user, newest first, and a client that reads them   *)
(* page by page while the user goes on adding and removing some.  A page   *)
(* is counted and selected by two statements; a client asks for the next   *)
(* one as long as the last count says that there is one.                   *)
(*                                                                         *)
(* The table has one row for a product whatever its marketplace.  Adding a *)
(* product that is there updates its price and leaves its place.           *)
(***************************************************************************)
EXTENDS Pagination, Sequences, SequencesExt, FiniteSets

CONSTANTS
    Products,       \* the products
    PageLimit,      \* the limit the client asks with
    MaxChanges      \* bound on what is added and removed during one reading

VARIABLES
    favorites,      \* the rows, in the order of added_at, newest first
    reader,         \* what the client does next, for which page, and the last count
    got,            \* the rows the client was sent in this reading
    steady,         \* history: the rows that were there during all of it
    changes         \* history: the rows added and removed during it

vars == <<favorites, reader, got, steady, changes>>

NotReading == [at |-> "idle", page |-> 0, total |-> 0]

TypeOK ==
    /\ favorites \in Seq(Products) /\ IsInjective(favorites)
    /\ reader \in [at : {"idle", "count", "select"},
                   page : 0..(Cardinality(Products) + 1), total : 0..Cardinality(Products)]
    /\ got \subseteq Products
    /\ steady \subseteq ToSet(favorites)
    /\ changes \in 0..MaxChanges

Init ==
    /\ favorites = <<>>
    /\ reader = NotReading
    /\ got = {}
    /\ steady = {}
    /\ changes = 0

Change ==
    IF reader.at = "idle" THEN UNCHANGED changes
    ELSE changes < MaxChanges /\ changes' = changes + 1

-----------------------------------------------------------------------------
\* addFavorite, by REST or GraphQL; a product that is there stays where it is.
AddFavorite(p) ==
    /\ p \notin ToSet(favorites)
    /\ favorites' = <<p>> \o favorites
    /\ Change
    /\ UNCHANGED <<reader, got, steady>>

RemoveFavorite(p) ==
    /\ \E i \in DOMAIN favorites : favorites[i] = p /\ favorites' = RemoveAt(favorites, i)
    /\ steady' = steady \ {p}
    /\ Change
    /\ UNCHANGED <<reader, got>>

\* A client begins with the first page.
BeginReading ==
    /\ reader.at = "idle"
    /\ reader' = [at |-> "count", page |-> 1, total |-> 0]
    /\ got' = {}
    /\ steady' = ToSet(favorites)
    /\ changes' = 0
    /\ UNCHANGED favorites

CountFavorites ==
    /\ reader.at = "count"
    /\ reader' = [reader EXCEPT !.at = "select", !.total = Len(favorites)]
    /\ UNCHANGED <<favorites, got, steady, changes>>

\* Mutant of PageOf: pages are counted from 0.
PageFromZero ==
    {favorites[i + 1] : i \in PageRows(reader.page + 1, Len(favorites), PageLimit)}

\* LIMIT and OFFSET of the rows there are by now.
PageOf == {favorites[i + 1] : i \in PageRows(reader.page, Len(favorites), PageLimit)}

SelectFavorites ==
    /\ reader.at = "select"
    /\ got' = got \cup PageOf
    /\ reader' = IF HasNext(reader.page, reader.total, PageLimit)
                 THEN [reader EXCEPT !.at = "count", !.page = @ + 1]
                 ELSE NotReading
    /\ UNCHANGED <<favorites, steady, changes>>

\* A statement throws: the answer is 500, and the client asks for the page again.
GetFavoritesFails ==
    /\ reader.at = "select"
    /\ reader' = [reader EXCEPT !.at = "count"]
    /\ UNCHANGED <<favorites, got, steady, changes>>

Next ==
    \/ \E p \in Products : AddFavorite(p) \/ RemoveFavorite(p)
    \/ BeginReading \/ CountFavorites \/ SelectFavorites \/ GetFavoritesFails

Spec == Init /\ [][Next]_vars

-----------------------------------------------------------------------------
\* Pages are cut out of the list as it is at each request (favoritesService.ts:
\* 79-93): a removal moves a row over the border of two pages, and an addition
\* moves one past the last.  A client misses no more rows than were added and
\* removed while it read.
MissedBound == reader.at = "idle" => Cardinality(steady \ got) <= changes
=============================================================================
