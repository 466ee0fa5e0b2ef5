-------------------------------- MODULE Fonts -------------------------------
(***************************************************************************)
(* The font of the graphics mode: src/src/gui/font.c reads a Windows font  *)
(* file from the disk, on the driver of module Ata, and finds its glyphs;  *)
(* src/tools/parse_fon.c prints the glyphs of such a file on the host.     *)
(*                                                                         *)
(* A file is the function from the positions of its fields to their        *)
(* values, 0 elsewhere.  The glyphs themselves are left out: a glyph is    *)
(* where it begins.                                                        *)
(***************************************************************************)
EXTENDS Ata, FiniteSetsExt

CONSTANTS
  FontSector, FontSectors,      \* font_load's 92 and 10
  MAX_FONT_DIRS, MAX_FONTS,     \* 1 and 4
  FontFiles,                    \* what may be in the image
  GlyphNumbers                  \* characters of the text, and others

ASSUME FontAssumption ==
  /\ FontSector \in Nat /\ FontSectors \in 1 .. 255
  /\ FontSector .. FontSector + FontSectors - 1 \subseteq Sectors
  /\ MAX_FONT_DIRS \in Nat \ {0} /\ MAX_FONTS \in Nat \ {0}
  /\ \A f \in FontFiles :
       DOMAIN f \subseteq Nat /\ \A p \in DOMAIN f : f[p] \in Nat
  /\ GlyphNumbers \subseteq 0 .. 255

SectorBytes == 512
LastPosition == FontSectors * SectorBytes
MZ_SIG == \h5A4D
NE_SIG == \h454E
NE_HEADER_OFFSET == \h3C
RES_TABLE_OFFSET == \h24
RES_TYPE_FONTDIR == \h8007
RES_TYPE_FONT == \h8008

(* Variant: a glyph entry of version 3 that is not packed.                 *)
font_v3_unpacked ==
  [first_char |-> 95, last_char |-> 96, char_table |-> 148, entry |-> 8]

(* The structure's fields that are used, and the size of a glyph's entry.  *)
font_v3 == [first_char |-> 95, last_char |-> 96, char_table |-> 148, entry |-> 6]

Garbage == -1   \* read from where no font is
Null == 0

VARIABLES
  file,      \* the font file in the image
  gui,       \* what gui_init does: "off" if kmain does not call it,
             \* "font_load", "loading", "resources", "fonts", "text"
  walk,      \* where parse_resource_table is, and how many resources of the
             \* type are left
  tables,    \* g_res_font_dirs, g_res_fonts, where entry points and whether
             \* it has been used without pointing anywhere
  fonts,     \* g_fonts and g_fonts_v3: positions in buf
  glyph      \* the last call of font_get_glyph: its argument and its result

fontVars == <<file, gui, walk, tables, fonts, glyph>>

NoWalk == [shift_count |-> 0, buf |-> 0, res_type_id |-> 0, left |-> 0]
NoTables == [font_dirs |-> <<>>, fonts |-> <<>>, entry |-> <<>>, wild |-> FALSE]
NoFonts == [v2 |-> <<>>, v3 |-> <<>>]
NotDrawn == [num |-> -1, at |-> Null]

FontInit ==
  /\ file \in FontFiles
  /\ gui \in {"off", "font_load"}
  /\ walk = NoWalk
  /\ tables = NoTables
  /\ fonts = NoFonts
  /\ glyph = NotDrawn

-----------------------------------------------------------------------------
(* What is read                                                            *)

Field(p) == IF p \in DOMAIN file THEN file[p] ELSE 0

(* The static buf: zero but for the sectors that have been read.           *)
word(p) ==
  LET k == p \div SectorBytes + 1
  IN IF k \in DOMAIN data
     THEN Field((data[k] - FontSector) * SectorBytes + (p % SectorBytes))
     ELSE 0

Uint16(n) == n % 65536

-----------------------------------------------------------------------------
(* The resource table                                                      *)

(* entry = &list[n++]                                                      *)
NextIn(list, t) ==
  [t EXCEPT ![list] = Append(@, Null), !.entry = <<list, Len(t[list]) + 1>>]

(* Variant: takes one font more than there is room for.                    *)
EntryForOneMore(t, type) ==
  CASE type = RES_TYPE_FONTDIR /\ Len(t.font_dirs) < MAX_FONT_DIRS -> NextIn("font_dirs", t)
    [] type = RES_TYPE_FONT /\ Len(t.fonts) <= MAX_FONTS -> NextIn("fonts", t)
    [] OTHER -> t

(* Another type, or no room: entry is not assigned.  The build does not    *)
(* optimize, so it is what it was for the entry before, and for the first  *)
(* one whatever is on the stack.                                           *)
EntryFor(t, type) ==
  CASE type = RES_TYPE_FONTDIR /\ Len(t.font_dirs) < MAX_FONT_DIRS -> NextIn("font_dirs", t)
    [] type = RES_TYPE_FONT /\ Len(t.fonts) < MAX_FONTS -> NextIn("fonts", t)
    [] OTHER -> t

(* entry->file_offset = ...                                                *)
Store(t, file_offset) ==
  IF t.entry = <<>> THEN [t EXCEPT !.wild = TRUE]
  ELSE [t EXCEPT ![t.entry[1]][t.entry[2]] = file_offset]

(* The first word of a resource, shifted, is its position: uint16_t.       *)
FileOffset(first, shift_count) == Uint16(first * 2 ^ shift_count)

(* The next type of resources.                                             *)
NextType ==
  /\ gui = "resources"
  /\ walk.left = 0
  /\ word(walk.buf) # 0
  /\ walk' = [walk EXCEPT !.res_type_id = word(walk.buf),
                          !.left = word(walk.buf + 2), !.buf = @ + 8]
  /\ UNCHANGED <<file, gui, tables, fonts, glyph, ataVars>>

(* The next resource of the type.                                          *)
NextResource ==
  /\ gui = "resources"
  /\ walk.left > 0
  /\ tables' = Store(EntryFor(tables, walk.res_type_id),
                     FileOffset(word(walk.buf), walk.shift_count))
  /\ walk' = [walk EXCEPT !.left = @ - 1, !.buf = @ + 12]
  /\ UNCHANGED <<file, gui, fonts, glyph, ataVars>>

TableEnds ==
  /\ gui = "resources"
  /\ walk.left = 0
  /\ word(walk.buf) = 0
  /\ gui' = "fonts"
  /\ UNCHANGED <<file, walk, tables, fonts, glyph, ataVars>>

parse_resource_table == NextType \/ NextResource \/ TableEnds

-----------------------------------------------------------------------------
(* font.c's functions                                                      *)

font_load ==
  /\ gui = "font_load"
  /\ read_sectors(FontSector, FontSectors)
  /\ gui' = "loading"
  /\ UNCHANGED <<file, walk, tables, fonts, glyph>>

(* How many sectors have been read is not looked at.  Wrong signatures are *)
(* reported and nothing more.                                              *)
FontRead ==
  /\ gui = "loading"
  /\ step = "returned"
  /\ LET ne_header == word(NE_HEADER_OFFSET)
         table == ne_header + word(ne_header + RES_TABLE_OFFSET)
     IN walk' = [NoWalk EXCEPT !.shift_count = word(table), !.buf = table + 2]
  /\ gui' = "resources"
  /\ UNCHANGED <<file, tables, fonts, glyph, ataVars>>

IsVersion2(p) == word(p) = \h0200

Listed == Len(fonts.v2) + Len(fonts.v3)

(* Each resource taken for a font goes to the list of its version.         *)
parse_font ==
  /\ gui = "fonts"
  /\ Listed < Len(tables.fonts)
  /\ LET fontinfo == tables.fonts[Listed + 1]
     IN fonts' = IF IsVersion2(fontinfo)
                 THEN [fonts EXCEPT !.v2 = Append(@, fontinfo)]
                 ELSE [fonts EXCEPT !.v3 = Append(@, fontinfo)]
  /\ UNCHANGED <<file, gui, walk, tables, glyph, ataVars>>

FontsListed ==
  /\ gui = "fonts"
  /\ Listed = Len(tables.fonts)
  /\ gui' = "text"
  /\ UNCHANGED <<file, walk, tables, fonts, glyph, ataVars>>

(* With no font of version 3 the pointer is null, and there is memory at   *)
(* address 0; the same if the entries have gone astray.                    *)
font_get_glyph(num) ==
  IF fonts.v3 = <<>> \/ tables.wild THEN Garbage
  ELSE LET font == fonts.v3[1]
           first == word(font + font_v3.first_char)
       IN IF num < first \/ num > word(font + font_v3.last_char) THEN Null
          ELSE font + word(font + font_v3.char_table
                             + font_v3.entry * (num - first) + 2)

(* A character of gui_text.                                                *)
gui_text(num) ==
  /\ gui = "text"
  /\ glyph' = [num |-> num, at |-> font_get_glyph(num)]
  /\ UNCHANGED <<file, gui, walk, tables, fonts, ataVars>>

FontNext ==
  \/ font_load
  \/ FontRead
  \/ parse_resource_table
  \/ parse_font
  \/ FontsListed
  \/ \E num \in GlyphNumbers : gui_text(num)

-----------------------------------------------------------------------------
(* The tool, which reads the whole file                                    *)

(* Where the fields of fontdir_entry_t are that the table of glyphs needs. *)
fontdir_entry_t(fontinfo) ==
  [dfVersion |-> fontinfo, dfFirstChar |-> fontinfo + 95,
   dfLastChar |-> fontinfo + 96, dfReserved |-> fontinfo + 109]

tool_version(fontinfo) == Field(fontdir_entry_t(fontinfo).dfVersion)

(* glyph_offsets, as positions in the file, of the font's characters.      *)
tool_parse_font(fontinfo) ==
  LET entry == fontdir_entry_t(fontinfo)
      first == Field(entry.dfFirstChar)
      v3 == tool_version(fontinfo) = \h0300
      buf == entry.dfReserved + 9 + IF v3 THEN 30 ELSE 0
  IN [i \in first .. Field(entry.dfLastChar) |->
        fontinfo + Field(buf + (i - first) * (IF v3 THEN 6 ELSE 4) + 2)]

(* Where the resources of a type are, in the table's order, from the block *)
(* at each position on.                                                    *)
tool_blocks(type, shift_count) ==
  LET Types[p \in Nat] ==
        LET res_count == Field(p + 2)
            here == [i \in 1 .. res_count |->
                       FileOffset(Field(p + 8 + 12 * (i - 1)), shift_count)]
            rest == Types[p + 8 + 12 * res_count]
        IN IF Field(p) = 0 THEN <<>>
           ELSE (IF Field(p) = type THEN here ELSE <<>>) \o rest
  IN Types

tool_parse_resource_table(table, type) ==
  tool_blocks(type, Field(table))[table + 2]

tool_parse_ne(ne_header, type) ==
  tool_parse_resource_table(ne_header + Field(ne_header + \h24), type)

(* main: a file without the first signature is refused, and one with       *)
(* another second signature is not read here.                              *)
tool_signed == Field(0) = MZ_SIG /\ Field(Field(\h3C)) = NE_SIG

tool_resources(type) ==
  IF tool_signed THEN tool_parse_ne(Field(\h3C), type) ELSE <<>>

tool_fonts == tool_resources(\h8008)

-----------------------------------------------------------------------------
(* Properties                                                              *)

FontTypeOK ==
  /\ file \in FontFiles
  /\ gui \in {"off", "font_load", "loading", "resources", "fonts", "text"}
  /\ walk \in [shift_count : Nat, buf : Nat, res_type_id : Nat, left : Nat]
  /\ tables.font_dirs \in Seq(Nat) /\ Len(tables.font_dirs) <= MAX_FONT_DIRS
  /\ tables.fonts \in Seq(Nat) /\ Len(tables.fonts) <= MAX_FONTS
  /\ tables.wild \in BOOLEAN
  /\ fonts.v2 \in Seq(Nat) /\ fonts.v3 \in Seq(Nat)
  /\ Listed <= Len(tables.fonts)
  /\ gui = "text" => Listed = Len(tables.fonts)
  /\ glyph.num \in GlyphNumbers \cup {NotDrawn.num}
  /\ glyph.at \in Nat \cup {Garbage}

(* The file has its fields in the sectors that are read, nothing that      *)
(* font.c has no room or no type for, and fonts of the two versions.       *)
FileFits ==
  /\ DOMAIN file \subseteq 0 .. LastPosition - 2
  /\ Len(tool_resources(RES_TYPE_FONTDIR)) <= MAX_FONT_DIRS
  /\ Len(tool_fonts) <= MAX_FONTS
  /\ \A p \in DOMAIN file :
       file[p] \notin {RES_TYPE_FONTDIR, RES_TYPE_FONT} => tool_resources(file[p]) = <<>>
  /\ \A i \in DOMAIN tool_fonts :
       tool_version(tool_fonts[i]) \in {\h0200, \h0300}

(* Two programs, two readings of one format: of a font file that fits and  *)
(* has been read to its end, the kernel draws for each character the glyph *)
(* that the tool shows for it in the first font of version 3, wherever the *)
(* file has it, and none for a character without one.                      *)
KernelGlyphIsTools ==
  LET v3 == {i \in DOMAIN tool_fonts : tool_version(tool_fonts[i]) = \h0300}
  IN /\ glyph # NotDrawn
     /\ read_count = FontSectors
     /\ FileFits
     /\ v3 # {}
     => LET shown == tool_parse_font(tool_fonts[Min(v3)])
        IN glyph.at = IF glyph.num \in DOMAIN shown THEN shown[glyph.num] ELSE Null
=============================================================================
