------------------------------- MODULE Pronto -------------------------------
(***************************************************************************)
(* The Pronto code a learned transmission is shown as, in 16-bit words:    *)
(* what rr_output_pronto and rr2_output_pronto have in common.             *)
(***************************************************************************)
EXTENDS Integers, Sequences

\* Pulses and spaces in the order the output loops emit them: one of each
\* in turn, then what is left of the longer table.
Alternate(pulse, space) ==
    LET k == IF Len(pulse) < Len(space) THEN Len(pulse) ELSE Len(space)
    IN  [i \in 1 .. Len(pulse) + Len(space) |->
            CASE i > 2 * k /\ Len(pulse) > k -> pulse[i - k]
              [] i > 2 * k /\ Len(pulse) = k -> space[i - k]
              [] i <= 2 * k /\ i % 2 = 1     -> pulse[(i + 1) \div 2]
              [] i <= 2 * k /\ i % 2 = 0     -> space[i \div 2]]

\* The frequency word, of which the code stores one byte.
FrequencyWord(freq) == (4145146 \div freq) % 256

\* A Pronto line as its 16-bit words: 0000, the frequency, no once-pairs, the
\* pair count, the durations in carrier cycles (scale/freq of them per time
\* unit) and a 10 ms trailer.
ProntoWords(scale, freq, pulse, space) ==
    LET times == Alternate(pulse, space)
    IN  <<0, FrequencyWord(freq), 0, Len(pulse) % 65536>>
        \o [i \in DOMAIN times |-> ((scale * times[i]) \div freq) % 65536]
        \o <<(freq \div 100) % 65536>>
=============================================================================
