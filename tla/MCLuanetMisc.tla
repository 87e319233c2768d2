---------------------------- MODULE MCLuanetMisc ----------------------------
\* sha1() with the sizes and the rounds of the code on strings around the ends
\* of a block (the words of the length are kept below 2^30, the widest TLC can
\* double); the other calls with ints of three bits.
EXTENDS LuanetMisc, Sha1Words

As(n) == [i \in 1..n |-> 97]

\* The digests of FIPS 180 as every other implementation computes them; the
\* string with a NUL has the digest of "ab", what comes before it.
MCKnown ==
    <<>> :>
        << <<55865, 41966>>, <<24171, 19213>>, <<12885, 49135>>,
           <<38240, 6288>>, <<45016, 1801>> >> @@
    <<97, 98, 99>> :>
        << <<43417, 15926>>, <<18182, 33130>>, <<47678, 9585>>,
           <<30800, 49772>>, <<40144, 55453>> >> @@
    <<97, 98, 0, 99>> :>
        << <<55843, 24910>>, <<582, 39437>>, <<31867, 53693>>,
           <<43868, 40007>>, <<19225, 1244>> >> @@
    <<255, 128>> :>
        << <<12114, 64152>>, <<44769, 20893>>, <<34976, 40528>>,
           <<6644, 6250>>, <<42170, 30330>> >> @@
    As(55) :>
        << <<49608, 48092>>, <<8825, 28200>>, <<49377, 20835>>,
           <<53768, 39350>>, <<22049, 54874>> >> @@
    As(56) :>
        << <<49883, 13071>>, <<24707, 34124>>, <<39380, 46527>>,
           <<46824, 62111>>, <<8219, 59033>> >> @@
    As(64) :>
        << <<152, 47746>>, <<19292, 5698>>, <<31703, 41234>>,
           <<10842, 17450>>, <<9708, 25677>> >> @@
    As(119) :>
        << <<61079, 4197>>, <<43680, 6112>>, <<25386, 36006>>,
           <<51067, 46015>>, <<35613, 64598>> >> @@
    As(120) :>
        << <<62284, 5256>>, <<14419, 18085>>, <<22281, 47621>>,
           <<28125, 2088>>, <<3540, 50902>> >>

MCLower == <<"a">>
MCUpper == <<"A">>
MCFigures == <<"0">>
MCDirs == [empty |-> <<".", "..">>, two |-> <<"..", "x", ".", "y">>]
=============================================================================
