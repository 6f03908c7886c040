------------------------------- MODULE MCRibsu -------------------------------
(***************************************************************************)
(* Instances of Ribsu for TLC.  Durations are small, different from each   *)
(* other, and such that a decoder that loses its place does not compute a  *)
(* frequency beyond TLC's integers.                                        *)
(***************************************************************************)
EXTENDS RibsuProperties, UirtFormat

MCUirCodes == {UirCode(<<1, 2, 3>>), UirCode(<<4, 5, 6>>)}

MCBurst(pulse, space) == [pulse |-> pulse, space |-> space]

MCRawCodes ==
    {RawCode(<<2, 9>>, <<MCBurst(<<16, 17>>, <<18>>)>>, <<200>>),
     RawCode(<<2, 9>>, <<MCBurst(<<16, 17>>, <<18>>), MCBurst(<<19>>, <<>>)>>,
             <<200>>)}

\* The second pulse has 150 carrier cycles: its count takes two bytes.
MCRaw2Codes ==
    {Raw2Code(<<2, 9>>, <<MCBurst(<<<<500, 8>>, <<10000, 150>>>>, <<1000>>)>>, <<70, 1>>),
     Raw2Code(<<2, 9>>, <<MCBurst(<<<<500, 8>>>>, <<>>), MCBurst(<<<<1000, 16>>>>, <<>>)>>,
              <<70, 1>>)}

MCIrCodes == MCUirCodes \cup MCRawCodes \cup MCRaw2Codes

\* One code of each format; RAW and RAW2 with a repeat after a gap.
MCShortCodes ==
    {UirCode(<<1, 2, 3>>),
     RawCode(<<2, 9>>, <<MCBurst(<<16, 17>>, <<18>>), MCBurst(<<19>>, <<>>)>>, <<200>>),
     Raw2Code(<<2, 9>>, <<MCBurst(<<<<500, 8>>>>, <<>>), MCBurst(<<<<10000, 150>>>>, <<>>)>>,
              <<70, 1>>)}

MCFrequencies == {0, 40000}

\* The codes above are codes of the device, and are expected to be shown as the
\* format says: what LinkProofs assumes of codes.
ASSUME FormatAssumption == CodesInFormat /\ CodesAsShown
=============================================================================
