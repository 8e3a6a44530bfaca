----------------------------- MODULE MC_Buffers -----------------------------
EXTENDS Buffers

CONSTANTS in1, in2, out1

MCInBufs == {in1, in2}
MCOutBufs == {out1}
MCOneIn == {in1}
MCMemSizes == <<2, 4, 8>>
MCPrealloc == <<1, 0, 0>>
MCPreallocTop == <<0, 0, 1>>

=============================================================================
