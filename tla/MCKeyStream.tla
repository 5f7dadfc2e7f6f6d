---------------------------- MODULE MCKeyStream ----------------------------
EXTENDS KeyStream

\* p numbers its rows, c references p and itself, o is one-to-one with p and has
\* a UNIQUE tag, and j joins o and c and has a tag UNIQUE within o.
POrder     == <<"p", "c", "o", "j">>
PKind      == [p |-> "sequence", c |-> "random", o |-> "identifying", j |-> "junction"]
PParents   == [p |-> <<>>, c |-> <<"p">>, o |-> <<"p">>, j |-> <<"o", "c">>]
PGroupRefs == [p |-> {}, c |-> {}, o |-> {}, j |-> {1}]
PAdds      == [p |-> <<1>>, c |-> <<1, 2>>, o |-> <<3>>, j |-> <<3>>]
PCalls     == [p |-> 2, c |-> 1, o |-> 1, j |-> 1]

\* Nothing; one parent with a child, its one-to-one row and their junction; a
\* child whose key leaves too few for those to come; more parents than a pool
\* holds; parents with negative keys only.
RowOf(key, refs, tag, num) == [key |-> key, refs |-> refs, self |-> Null, tag |-> tag, num |-> num]
Empty    == [p |-> {}, c |-> {}, o |-> {}, j |-> {}]
One      == [p |-> {RowOf(5, <<>>, Null, 0)}, c |-> {RowOf(7, <<5>>, Null, 0)}, o |-> {RowOf(5, <<5>>, 1, 0)},
             j |-> {RowOf(<<5, 7>>, <<5, 7>>, 1, 0)}]
Short    == [One EXCEPT !.c = {RowOf(1, <<5>>, Null, 0)}, !.o = {}, !.j = {}]
Many     == [Empty EXCEPT !.p = {RowOf(5, <<>>, Null, 0), RowOf(1, <<>>, Null, 2), RowOf(2, <<>>, Null, 1)}]
Negative == [Empty EXCEPT !.p = {RowOf(-3, <<>>, Null, 0), RowOf(-1, <<>>, Null, 1)}]
Starts   == {Empty, One, Short, Many, Negative}
=============================================================================
