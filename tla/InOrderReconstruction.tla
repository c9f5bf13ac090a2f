----------------------- MODULE InOrderReconstruction -----------------------
(***************************************************************************)
(* What the pixels of a picture promise, whatever batches and workers make *)
(* them: a slice grows in macroblock order, and an intra macroblock        *)
(* predicts from those of its slice that precede it, from intra ones only  *)
(* when prediction is constrained.                                         *)
(***************************************************************************)
EXTENDS Integers

CONSTANTS Sizes,        \* the pictures' [width, height], in macroblocks
          SliceIds

VARIABLES size, constrained, image

Addresses(s) == 0 .. s.width * s.height - 1

NoPixels == [slice |-> 0, intra |-> FALSE, uses |-> {}]

\* The macroblocks whose samples intra prediction may read: to the left,
\* above, above left and above right.
Neighbours(s, a) ==
  LET x == a % s.width
      y == a \div s.width
  IN  {n \in Addresses(s) :
         LET dx == (n % s.width) - x
             dy == (n \div s.width) - y
         IN  <<dx, dy>> \in {<<-1, 0>>, <<0, -1>>, <<-1, -1>>, <<1, -1>>}}

OfSlice(pixels, s) == {a \in DOMAIN pixels : pixels[a].slice = s}

IsRun(set) == \A a, b \in set : a .. b \subseteq set

Blank(s) == [a \in Addresses(s) |-> NoPixels]

Init ==
  /\ size \in Sizes
  /\ constrained \in BOOLEAN
  /\ image = Blank(size)

NewPicture ==
  /\ size' \in Sizes
  /\ image' = Blank(size')
  /\ UNCHANGED constrained

\* The next macroblocks of a slice, together.
Reconstruct(s) ==
  /\ \A a \in Addresses(size) :
       image'[a] # image[a] =>
         /\ image[a] = NoPixels
         /\ \A b \in OfSlice(image, s) : b < a
         /\ image'[a].slice = s
         /\ image'[a].uses =
              IF ~ image'[a].intra THEN {}
              ELSE {n \in Neighbours(size, a) :
                      /\ n < a /\ image'[n].slice = s
                      /\ constrained => image'[n].intra}
  /\ DOMAIN image' = DOMAIN image
  /\ IsRun(OfSlice(image', s))
  /\ UNCHANGED <<size, constrained>>

Next == NewPicture \/ \E s \in SliceIds : Reconstruct(s)

Spec == Init /\ [][Next]_<<size, constrained, image>>
=============================================================================
