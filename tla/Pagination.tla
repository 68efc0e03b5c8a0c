------------------------------ MODULE Pagination ------------------------------
(***************************************************************************)
(* The arithmetic of pages: what Pagination makes of the query of a        *)
(* request, and what it answers about the pages there are.  The favorites  *)
(* compute the same offset and number of pages on their own.               *)
(***************************************************************************)
EXTENDS Integers

DefaultLimit == 20
MaxLimit == 100

Smaller(a, b) == IF a < b THEN a ELSE b
Larger(a, b) == IF a > b THEN a ELSE b

\* parseParams: the limit, of the number parseInt finds, or of something else when
\* it finds none.
ParseLimit(value) ==
    IF value \in Int THEN Smaller(MaxLimit, Larger(1, value)) ELSE DefaultLimit

Offset(page, limit) == (page - 1) * limit

\* createResult: Math.ceil(total / limit), and whether another page follows.
TotalPages(total, limit) == (total + limit - 1) \div limit
HasNext(page, total, limit) == page < TotalPages(total, limit)

\* LIMIT and OFFSET: the positions, from 0, of the rows of a page.
PageRows(page, total, limit) ==
    {i \in 0..(total - 1) : Offset(page, limit) <= i /\ i < Offset(page, limit) + limit}
=============================================================================
