------------------------------- MODULE MCDisk -------------------------------
(***************************************************************************)
(* Loader as in MCLoader, and the driver's other uses.  Before the first   *)
(* command the driver is used for up to MaxCount sectors at a time,        *)
(* inside the drive, across its end and outside.  The driver's other user, *)
(* font_load of module Fonts, has behaviours of its own: they end with the *)
(* text that gui_init draws, and the others have no gui_init.              *)
(***************************************************************************)
EXTENDS MCLoader, Fonts

CONSTANT MaxCount

-----------------------------------------------------------------------------
(* Font files of two sectors: the NE header at 128, its resource table at  *)
(* 192, and three places for fonts from 288 on.  The font in the second    *)
(* place has its glyph entries in the second sector.                       *)

Block(type, places) == [type |-> type, places |-> places]

NameOther == \h48

Tables ==
  LET dir == Block(RES_TYPE_FONTDIR, <<1>>)
      font(places) == Block(RES_TYPE_FONT, places)
      other == Block(NameOther, <<3>>)
  IN {<<>>,
      <<dir, font(<<1>>)>>, <<dir, font(<<2>>)>>, <<font(<<2, 1>>), dir>>,
      <<dir, font(<<1, 2>>)>>, <<font(<<1, 2, 3>>)>>,
      <<dir, font(<<1>>), other>>, <<other, font(<<1>>)>>,
      <<Block(RES_TYPE_FONTDIR, <<1, 2>>), font(<<2>>)>>}

FontAt(place) == 288 + 160 * (place - 1)

(* The characters of the font in a place.                                  *)
Chars(place) == IF place = 2 THEN 0 .. 1 ELSE 1 .. 2

FontWords(place, version) ==
  LET here == FontAt(place)
      v3 == version = \h0300
      size == IF v3 THEN 148 ELSE 118
      entry == IF v3 THEN 6 ELSE 4
      first == CHOOSE c \in Chars(place) : c + 1 \in Chars(place)
  IN (here :> version) @@ (here + 95 :> first) @@ (here + 96 :> first + 1)
     @@ [p \in {here + size + entry * n + 2 : n \in {0, 1}} |->
           (p - here) * 2]

(* The table's blocks from position p on.                                  *)
TableWords(blocks) ==
  LET At(n) == 194 + FoldLeft(LAMBDA p, b : p + 8 + 12 * Len(b.places), 0,
                              SubSeq(blocks, 1, n - 1))
      Words(n) == (At(n) :> blocks[n].type)
                  @@ (At(n) + 2 :> Len(blocks[n].places))
                  @@ [p \in {At(n) + 8 + 12 * (k - 1) :
                               k \in DOMAIN blocks[n].places} |->
                        FontAt(blocks[n].places[(p - At(n) - 8) \div 12 + 1])
                          \div 16]
  IN FoldLeft(LAMBDA f, n : f @@ Words(n), 192 :> 4, [n \in DOMAIN blocks |-> n])

FontFile(blocks, versions) ==
  (0 :> MZ_SIG) @@ (NE_HEADER_OFFSET :> 128) @@ (128 :> NE_SIG)
  @@ (128 + RES_TABLE_OFFSET :> 64) @@ TableWords(blocks)
  @@ FontWords(1, versions[1]) @@ FontWords(2, versions[2]) @@ FontWords(3, \h0300)

(* A sector where no font file is, a file that is not read to its end, and *)
(* one with a font of an earlier version.                                  *)
NotAFont == 0 :> 0
LongFile ==
  FontFile(<<Block(RES_TYPE_FONT, <<6>>)>>, <<\h0200, \h0300>>)
  @@ FontWords(6, \h0300)
OldFont ==
  FontWords(3, \h0100)
  @@ FontFile(<<Block(RES_TYPE_FONT, <<3, 2>>)>>, <<\h0200, \h0300>>)

FilesToLoad ==
  {FontFile(blocks, versions) :
     blocks \in Tables, versions \in {\h0200, \h0300} \X {\h0200, \h0300}}
  \cup {NotAFont, LongFile, OldFont}

-----------------------------------------------------------------------------

(* Around each boundary: the end of the disk, 28 bits, the bit that        *)
(* selects the drive and the last of the 32 bits.                          *)
Addresses == 0 .. 2 * LbaModulus \cup {UintModulus - 1}

AnyRead(s, n) ==
  /\ pc = "shell"
  /\ ~filetable_loaded
  /\ read_sectors(s, n)
  /\ LoaderWaits

Commands ==
  \/ \E n \in Names : exec(n)
  \/ Loading
  \/ \E s \in Addresses, n \in 1 .. MaxCount : AnyRead(s, n)

(* One file is enough where it is not read.                                *)
MCInit ==
  /\ Init
  /\ FontInit
  /\ gui = "off" => file = NotAFont

MCNext ==
  \/ gui = "off" /\ Commands /\ UNCHANGED fontVars
  \/ Disk /\ UNCHANGED fontVars
  \/ FontNext /\ LoaderWaits

MCSpec == MCInit /\ [][MCNext]_<<vars, fontVars>> /\ LoaderFairness
=============================================================================
