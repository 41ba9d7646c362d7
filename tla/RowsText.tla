----------------------------- MODULE RowsText -----------------------------
(***************************************************************************)
(* The rows about formats, each a single goroutine that calls the library   *)
(* in a loop: bench/ json, xml, gob, asn1, template, textproto, url, lzw,   *)
(* flate and bzip2.                                                         *)
(*                                                                          *)
(* ar is the arena of a row and p what one iteration allocates in it; x, y, *)
(* z and w are objects on the heap.                                         *)
(***************************************************************************)
EXTENDS RowCode

----------------------------------------------------------------------------
(* json_bench.c.  The document is a static buffer, built by the first row   *)
(* that needs it.  items comes from the heap.                               *)
build_doc == <<Once("doc")>>

json_valid == Row([setup |-> build_doc, loop |-> <<Work({"doc"})>>])

json_compact ==
  Row([setup |-> build_doc \o <<Get("ind"), Work({"ind"}), Get("buf")>>,
       loop  |-> <<Work({"ind", "buf"})>>,
       after |-> <<Free("buf")>>])

json_read_tokens ==
  Row([setup |-> build_doc \o <<Get("x")>>, loop |-> <<Work({"x", "doc"})>>, after |-> <<Free("x")>>])

MarshalStruct ==
  Row([setup |-> build_doc \o <<Get("ar"), Make(<<"items">>, "return", {})>>,
       loop  |-> <<In("p", "ar"), Work({"p", "items"}), Reset("ar")>>,
       after |-> <<Free("ar")>>])

json_marshal_struct    == MarshalStruct
json_unmarshal         == KeptRow(build_doc, OneResult, <<>>)
json_v1_marshal_struct == MarshalStruct
json_v1_unmarshal      == KeptRow(build_doc, OneResult, <<>>)

json_v1_decoder ==
  KeptRow(build_doc, <<In("q", "ar"), In("p", "ar"), Work({"p", "q"}), FreeAfter("q", {"ar"})>>, <<>>)

JsonRows == <<json_valid, json_compact, json_read_tokens, json_marshal_struct, json_unmarshal,
              json_v1_marshal_struct, json_v1_unmarshal, json_v1_decoder>>

----------------------------------------------------------------------------
(* xml_bench.c *)
xml_build_doc  == <<Once("doc")>>
xml_build_feed == <<Once("feed")>>

xml_tokens == Row([setup |-> xml_build_doc, loop |-> <<Get("x"), Work({"x", "doc"}), Free("x")>>])

xml_encode_tokens ==
  Row([setup |-> xml_build_doc \o <<Get("ar"), Get("x"), In("p", "ar"), Work({"x", "p"}), Free("x")>>,
       loop  |-> <<Get("y"), Work({"y", "p"}), Free("y")>>,
       after |-> <<Free("ar")>>])

xml_marshal       == Row([setup |-> xml_build_feed, loop |-> <<Get("x"), Work({"feed"}), Free("x")>>])
xml_encode_struct == Row([setup |-> xml_build_feed, loop |-> <<Get("y"), Work({"y", "feed"}), Free("y")>>])

xml_unmarshal ==
  LET read == ArenaRow(<<In("p", "ar"), Must({"p", "doc"}), Reset("ar")>>, OneResult)
  IN [read EXCEPT !.setup = xml_build_doc \o @]

XmlRows == <<xml_tokens, xml_encode_tokens, xml_marshal, xml_encode_struct, xml_unmarshal>>

----------------------------------------------------------------------------
(* gob_bench.c and asn1_bench.c: the input lives in a static arena that is  *)
(* filled by the first row that needs it.                                   *)
gob_build_feed == <<OnceChecked("feed")>>

gob_encode ==
  Row([setup |-> gob_build_feed, loop |-> <<Get("x"), Work({"x", "feed"}), Free("x")>>])

gob_encode_again ==
  Row([setup |-> gob_build_feed \o <<Get("x")>>, loop |-> <<Work({"x", "feed"})>>, after |-> <<Free("x")>>])

gob_decode ==
  KeptRow(gob_build_feed,
          <<In("q", "ar"), In("p", "ar"), Must({"p", "q", "feed"}), FreeAfter("q", {"ar"})>>, <<>>)

asn1_build_list == <<OnceChecked("list")>>

asn1_marshal == Row([setup |-> asn1_build_list, loop |-> <<Get("x"), Must({"list"}), Free("x")>>])

asn1_unmarshal == KeptRow(asn1_build_list, <<In("p", "ar"), Must({"p", "list"})>>, <<>>)

CodecRows == <<gob_encode, gob_encode_again, gob_decode, asn1_marshal, asn1_unmarshal>>

----------------------------------------------------------------------------
(* template_bench.c and textproto_bench.c *)
build_items == <<Once("items_tb")>>

template_parse_large ==
  KeptRow(<<Get("keep"), In("kp", "keep")>>, <<In("p", "ar"), Must({"p", "kp"})>>, <<Free("keep")>>)

template_execute_range ==
  [Held(<<In("p", "ar"), Must({"p"})>>, <<Must({"p", "items_tb"})>>) EXCEPT !.setup = build_items \o @]

read_headers ==
  KeptRow(<<Get("z"), Get("x"), Get("y")>>,
          <<Work({"z"}), In("p", "ar"), Must({"p", "x", "y", "z"})>>,
          <<FreeAfter("y", {"x"}), FreeAfter("x", {"z"}), Free("z")>>)

textproto_canonical_key == ResultRow

TemplateRows == <<template_parse_large, template_execute_range, read_headers, textproto_canonical_key>>

----------------------------------------------------------------------------
(* url_bench.c *)
url_escape_rows == ResultRow
url_parse_rows  == ResultRow

(* The URL that is written out comes from the heap and is freed first. *)
url_string_rows ==
  [ArenaRow(<<Get("x")>>, <<In("p", "ar"), Work({"p", "x"})>>) EXCEPT !.after = <<Free("x")>> \o @]

url_resolve_reference ==
  [ArenaRow(<<Get("x"), Get("y")>>, <<In("p", "ar"), Work({"p", "x", "y"})>>)
   EXCEPT !.after = <<Free("y"), Free("x")>> \o @]

url_encode_query ==
  KeptRow(<<Get("keep"), In("kp", "keep"), Work({"kp"})>>,
          <<In("p", "ar"), Work({"p", "kp"})>>, <<Free("keep")>>)

url_parse_query == ResultRow

UrlRows == <<url_escape_rows, url_parse_rows, url_string_rows, url_resolve_reference,
             url_encode_query, url_parse_query>>

----------------------------------------------------------------------------
(* lzw_bench.c, flate_bench.c and bzip2_bench.c.  A file that cannot be     *)
(* read ends the process.                                                   *)
read_file == <<Make(<<"file">>, "abort", {})>>

sized_input == read_file \o <<Get("buf"), Work({"file", "buf"}), Free("file")>>

compressed_input ==
  read_file \o <<Get("z"), Make(<<"w">>, "abort", {}), Must({"w", "z", "file"}), Free("w"), Free("file")>>

lzw_decode ==
  Row([setup |-> compressed_input,
       loop  |-> <<Get("x"), Try({"x", "z"}), Free("x")>>,
       after |-> <<Verify, Free("z")>>])

lzw_decode_reuse ==
  Row([setup |-> compressed_input \o <<Make(<<"x">>, "abort", {})>>,
       loop  |-> <<Try({"x", "z"}), Work({"x", "z"})>>,
       after |-> <<Verify, Free("x"), Free("z")>>])

lzw_encode ==
  Row([setup |-> sized_input,
       loop  |-> <<Get("w"), Work({"w", "buf"}), Free("w")>>,
       after |-> <<Free("buf")>>])

lzw_encode_reuse ==
  Row([setup |-> sized_input \o <<Make(<<"w">>, "abort", {})>>,
       loop  |-> <<Work({"w", "buf"})>>,
       after |-> <<Free("w"), Free("buf")>>])

flate_read_file   == <<Make(<<"file">>, "abort", {})>>
flate_sized_input == flate_read_file \o <<Get("buf"), Work({"file", "buf"}), Free("file")>>

flate_encode ==
  Row([setup |-> flate_sized_input \o <<Make(<<"w">>, "abort", {})>>,
       loop  |-> <<Work({"w", "buf"})>>,
       after |-> <<Free("w"), Free("buf")>>])

flate_decode ==
  Row([setup |-> <<Make(<<"y">>, "abort", {})>> \o flate_sized_input \o
                 <<Get("z"), Make(<<"w">>, "abort", {}), Work({"w", "z", "buf"}), Free("w")>>,
       loop  |-> <<Get("x"), Try({"x", "z"}), Free("x")>>,
       after |-> <<Verify, Free("z"), Free("buf"), Free("y")>>])

flate_encode_rows == flate_encode
flate_decode_rows == flate_decode

bzip2_read_file == <<Make(<<"file">>, "abort", {})>>

decode_once == <<Make(<<"x">>, "abort", {}), Work({"x", "file"}), Free("x"), Must({})>>

bzip2_decode ==
  Row([setup |-> bzip2_read_file \o decode_once,
       loop  |-> decode_once \o <<Try({})>>,
       after |-> <<Verify, Free("file")>>])

CompressRows == <<lzw_decode, lzw_decode_reuse, lzw_encode, lzw_encode_reuse, flate_encode_rows,
                  flate_decode_rows, bzip2_decode>>

TextRows == JsonRows \o XmlRows \o CodecRows \o TemplateRows \o UrlRows \o CompressRows
=============================================================================
