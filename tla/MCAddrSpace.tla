----------------------------- MODULE MCAddrSpace -----------------------------
EXTENDS AddrSpace, TLC

Indices == 0 .. 1
Addresses == {<<0, 0>>, <<0, 1>>, <<1, 0>>}
Temp == <<1, 0>>
Top == <<0, 1>>

PageSymmetry == Permutations(Page)
=============================================================================
