------------------------------ MODULE MCQueries ------------------------------
EXTENDS Queries

MCRows == 1 .. 4
MCKey == <<1, 2, 2, 2>>
MCGrouped == {1, 2, 4}
MCOwn == {1, 3, 4}
MCTwice == {4}
MCLimits == {Null, -1, 0, 1, 2, 4}
MCIds == {Null, 1}
MCOffsets == {Null, -1, 0}
=============================================================================
