---------------------------- MODULE RowsNumbers ----------------------------
(***************************************************************************)
(* The rows about strings, numbers and interfaces, each a single goroutine  *)
(* that calls the library in a loop: bench/ str, utf8, strings, regexp,     *)
(* netip, hash, crypto, big, num, rand, strconv and iface.                  *)
(*                                                                          *)
(* A name that ends in _rows stands for several BENCHes with the same       *)
(* control, which differ in the input or in the library function they call. *)
(***************************************************************************)
EXTENDS RowCode

----------------------------------------------------------------------------
(* str_bench.c and utf8_bench.c: two static arrays, filled once. *)
str_fill_long == <<Once("long")>>

str_from_cstr_rows == Plain(<<Work({})>>)
str_eq_long        == Row([setup |-> str_fill_long, loop |-> <<Work({"long"})>>])
memcmp_long        == Row([setup |-> str_fill_long, loop |-> <<Work({"long"})>>])
str_eq_different_lengths == Row([setup |-> str_fill_long, loop |-> <<Work({"long"})>>])
strcmp_different_lengths == Row([setup |-> str_fill_long, loop |-> <<Work({"long"})>>])
str_short_rows     == Plain(<<Work({})>>)
str_cmp_long       == Row([setup |-> str_fill_long, loop |-> <<Work({"long"})>>])
str_clone_medium   == ResultRow
str_at_rows        == Row([setup |-> str_fill_long, loop |-> <<Work({"long"})>>])

StrRows == <<str_from_cstr_rows, str_eq_long, memcmp_long, str_eq_different_lengths,
             strcmp_different_lengths, str_short_rows, str_cmp_long, str_clone_medium, str_at_rows>>

utf8_fill_long == <<Once("long")>>
long_str       == utf8_fill_long

utf8_decode_rows     == Plain(<<Work({})>>)
utf8_range_rows      == Plain(<<Work({})>>)
utf8_count_rows      == Plain(<<Work({})>>)
utf8_count_long_rows == Row([setup |-> long_str, loop |-> <<Work({"long"})>>])
utf8_valid_rows      == Plain(<<Work({})>>)
utf8_valid_mixed     == Plain(<<Work({})>>)
utf8_valid_long      == Row([setup |-> long_str, loop |-> <<Work({"long"})>>])
utf8_encode_rows     == Plain(<<Work({})>>)

Utf8Rows == <<utf8_decode_rows, utf8_range_rows, utf8_count_rows, utf8_count_long_rows,
              utf8_valid_rows, utf8_valid_mixed, utf8_valid_long, utf8_encode_rows>>

----------------------------------------------------------------------------
(* strings_bench.c.  Eighty dashes come from a table and an upper case      *)
(* string is returned as it is, so two rows have nothing to reset.          *)
build_hard == <<OnceChecked("hard")>>

strings_hard_rows == Row([setup |-> build_hard, loop |-> <<Work({"hard"})>>])
strings_scan_rows == Plain(<<Work({})>>)
strings_fields_rows == ResultRow
strings_split_seq_single_byte == ArenaRow(<<>>, OneResult \o <<Work({"p"})>>)
strings_join      == ArenaRow(<<Work({})>>, OneResult)
strings_repeat    == Held(<<>>, <<Work({"ar"})>>)
strings_to_upper  == ResultRow
strings_to_upper_unchanged == Held(<<>>, <<Work({"ar"})>>)
strings_replace_all == ResultRow
strings_builder   == ArenaRow(<<>>, <<In("p", "ar"), Work({"p"}), Work({"p"})>>)

(* A replacer in the arena keep, used once before the loop, on a string that *)
(* lives in S.                                                               *)
run_replacer(S) ==
  LET replace == <<In("p", "ar"), Work({"p", "kp"} \cup S), Reset("ar")>> IN
  Row([setup |-> <<Get("ar"), Get("keep"), In("kp", "keep")>> \o replace,
       loop  |-> replace,
       after |-> <<Free("ar"), Free("keep")>>])

strings_html_escape == run_replacer({})
strings_match_rows ==
  [run_replacer({"buf"}) EXCEPT !.setup = <<Get("buf")>> \o @, !.after = @ \o <<Free("buf")>>]

StringsRows == <<strings_hard_rows, strings_scan_rows, strings_fields_rows,
                 strings_split_seq_single_byte, strings_join, strings_repeat, strings_to_upper,
                 strings_to_upper_unchanged, strings_replace_all, strings_builder,
                 strings_html_escape, strings_match_rows>>

----------------------------------------------------------------------------
(* regexp_bench.c: re is compiled, x and y are texts on the heap. *)
must      == <<Get("re")>>
repeat(x) == <<Get(x), Work({x})>>

regexp_find        == Row([setup |-> must, loop |-> <<Must({"re"})>>, after |-> <<Free("re")>>])
regexp_find_string == Row([setup |-> must, loop |-> <<Must({"re"})>>, after |-> <<Free("re")>>])

regexp_find_all_no_matches == KeptRow(must, <<Must({"re", "ar"})>>, <<Free("re")>>)
regexp_find_all_ten_matches ==
  KeptRow(must \o repeat("x"), <<In("p", "ar"), Must({"re", "x", "p"})>>, <<Free("x"), Free("re")>>)
regexp_submatch_rows == KeptRow(must, <<In("p", "ar"), Must({"re", "p"})>>, <<Free("re")>>)

match_string ==
  Row([setup |-> must \o repeat("y") \o <<Get("x"), Work({"x", "y"})>>,
       loop  |-> <<Must({"re", "x"})>>,
       after |-> <<Free("x"), Free("y"), Free("re")>>])
regexp_literal_rows == match_string

regexp_replace_all == KeptRow(must, <<In("p", "ar"), Work({"re", "p"})>>, <<Free("re")>>)

match_bytes ==
  Row([setup |-> must \o repeat("x"), loop |-> <<Work({"re", "x"})>>, after |-> <<Free("x"), Free("re")>>])
regexp_anchored_rows == match_bytes

quote_meta == ResultRow
regexp_quote_meta_rows == quote_meta

compile == <<Make(<<"re">>, "abort", {}), Free("re")>>
regexp_compile_rows == Plain(compile)
regexp_compile_hard ==
  Row([setup |-> repeat("x") \o repeat("y") \o <<Get("z"), Work({"x", "y", "z"})>>,
       loop  |-> compile,
       after |-> <<Free("z"), Free("y"), Free("x")>>])

make_text == <<Get("x"), Work({"x"})>>
match_data ==
  Row([setup |-> must \o make_text, loop |-> <<Must({"re", "x"})>>, after |-> <<Free("x"), Free("re")>>])
match_onepass ==
  Row([setup |-> must \o make_text, loop |-> <<Must({"re", "x"})>>, after |-> <<Free("x"), Free("re")>>])
regexp_match_rows   == match_data
regexp_onepass_rows == match_onepass

RegexpRows == <<regexp_find, regexp_find_string, regexp_find_all_no_matches, regexp_find_all_ten_matches,
                regexp_submatch_rows, regexp_literal_rows, regexp_replace_all, regexp_anchored_rows,
                regexp_quote_meta_rows, regexp_compile_rows, regexp_compile_hard, regexp_match_rows,
                regexp_onepass_rows>>

----------------------------------------------------------------------------
(* netip_bench.c, hash_bench.c and crypto_bench.c *)
parse_addr       == Plain(<<Work({})>>)
addr_string      == ArenaRow(<<Work({})>>, OneResult)
addr_port_string == ArenaRow(<<Work({})>>, OneResult)
parse_addr_port  == Plain(<<Work({})>>)

netip_parse_addr_rows       == parse_addr
netip_addr_string_rows      == addr_string
netip_addr_port_string_rows == addr_port_string
netip_parse_addr_port_rows  == parse_addr_port
netip_prefix_string         == ArenaRow(<<Work({})>>, OneResult)
netip_contains_rows         == Row([setup |-> <<Work({})>>, loop |-> <<Work({})>>])

NetipRows == <<netip_parse_addr_rows, netip_addr_string_rows, netip_addr_port_string_rows,
               netip_parse_addr_port_rows, netip_prefix_string, netip_contains_rows>>

(* build_keys ends the process when a key has the wrong length or malloc fails. *)
build_keys == <<OnceChecked("huge")>>
hash_rows  == Row([setup |-> build_keys, loop |-> <<Work({"huge"})>>])

(* m is the hash, p and q its input and its sum, which has room for every result. *)
run_hash(h) == Held(<<h, In("p", "ar"), In("q", "ar")>>, <<Work({"m", "p", "q"})>>)
run_crypto  == run_hash(In("m", "ar"))
crypto_rows == run_crypto

HashRows == <<hash_rows, crypto_rows>>

----------------------------------------------------------------------------
(* big_bench.c: a zero number is counted as allocated, because its storage  *)
(* comes with the first result and it is freed in any case.                 *)
rnd(z) == <<Get(z), Get("w"), Work({"w", z}), Free("w")>>

binop ==
  Row([setup |-> rnd("x") \o rnd("y") \o <<Get("z")>>,
       loop  |-> <<Work({"x", "y", "z"})>>,
       after |-> <<Work({"z"}), Free("x"), Free("y"), Free("z")>>])
big_int_rows == binop

big_exp_mod_32 ==
  Row([setup |-> rnd("x") \o rnd("y") \o rnd("num") \o <<Get("z")>>,
       loop  |-> <<Work({"x", "y", "num", "z"})>>,
       after |-> <<Work({"z"}), Free("x"), Free("y"), Free("num"), Free("z")>>])

to_string == KeptRow(rnd("x"), <<In("p", "ar"), Work({"p", "x"})>>, <<Free("x")>>)
set_string ==
  Row([setup |-> rnd("x") \o <<Get("z"), Get("ar"), In("p", "ar"), Work({"p", "x"})>>,
       loop  |-> <<Must({"z", "p"})>>,
       after |-> <<Free("ar"), Free("x"), Free("z")>>])
big_string_rows     == to_string
big_set_string_rows == set_string

big_probably_prime_521 ==
  Row([setup |-> <<Get("x"), Get("one"), Work({"x", "one"})>>,
       loop  |-> <<Must({"x"})>>,
       after |-> <<Free("x")>>])

rnd_rat(z) ==
  <<Get(z)>> \o rnd("num") \o rnd("den") \o
  <<Work({z, "num", "den"}), Free("num"), Free("den")>>
rat_binop ==
  Row([setup |-> rnd_rat("x") \o rnd_rat("y") \o <<Get("z")>>,
       loop  |-> <<Work({"x", "y", "z"})>>,
       after |-> <<Work({"z"}), Free("x"), Free("y"), Free("z")>>])
big_rat_rows == rat_binop

big_rat_harmonic_100 ==
  Row([setup |-> <<Get("x"), Get("y")>>,
       loop  |-> <<Work({"x"}), Work({"x", "y"})>>,
       after |-> <<Work({"x"}), Free("x"), Free("y")>>])
big_rat_float64_4 == Row([setup |-> rnd_rat("x"), loop |-> <<Work({"x"})>>, after |-> <<Free("x")>>])
big_rat_float_string_4 == KeptRow(rnd_rat("x"), <<In("p", "ar"), Work({"p", "x"})>>, <<Free("x")>>)
big_rat_set_string ==
  Row([setup |-> <<Get("x")>>, loop |-> <<Work({"x"})>>, after |-> <<Work({"x"}), Free("x")>>])

rnd_float(z) == <<Get(z)>> \o rnd("num") \o <<Work({z, "num"}), Free("num")>>
float_binop ==
  Row([setup |-> rnd_float("x") \o rnd_float("y") \o <<Get("z")>>,
       loop  |-> <<Work({"x", "y", "z"})>>,
       after |-> <<Work({"z"}), Free("x"), Free("y"), Free("z")>>])
big_float_rows == float_binop
big_float_sqrt_1000 ==
  Row([setup |-> rnd_float("x") \o <<Get("z")>>,
       loop  |-> <<Work({"x", "z"})>>,
       after |-> <<Work({"z"}), Free("x"), Free("z")>>])
big_float_text_1000 == KeptRow(rnd_float("x"), <<In("p", "ar"), Work({"p", "x"})>>, <<Free("x")>>)
big_float_set_string ==
  Row([setup |-> <<Get("x")>>, loop |-> <<Work({"x"})>>, after |-> <<Work({"x"}), Free("x")>>])

BigRows == <<big_int_rows, big_exp_mod_32, big_string_rows, big_set_string_rows, big_probably_prime_521,
             big_rat_rows, big_rat_harmonic_100, big_rat_float64_4, big_rat_float_string_4,
             big_rat_set_string, big_float_rows, big_float_sqrt_1000, big_float_text_1000,
             big_float_set_string>>

----------------------------------------------------------------------------
(* num_bench.c: an operand is hidden in a static slot, written and read back. *)
hidden_int  == <<Store("word", 1), Find("word", 1)>>
num_rows    == Row([setup |-> hidden_int, loop |-> <<Work({})>>])
num_divide_rows == Row([setup |-> hidden_int, loop |-> <<Work({})>>])
num_convert_rows == Row([setup |-> hidden_int, loop |-> <<Work({})>>])
num_hash_round == Row([setup |-> hidden_int \o <<Work({})>>, loop |-> <<Work({})>>])
num_sum_rows == Row([setup |-> <<Work({})>>, loop |-> <<Work({})>>])

NumRows == <<num_rows, num_divide_rows, num_convert_rows, num_hash_round, num_sum_rows>>

----------------------------------------------------------------------------
(* rand_bench.c: a generator and its source come from the heap and are not  *)
(* freed; the package's own generator needs neither.                        *)
hidden_i64 == <<Store("word", 1), Find("word", 1)>>
test_rand  == <<Get("source"), Get("gen")>>
test_rand1 == <<Get("source"), Get("gen")>>

Draw == <<Work({"gen", "source"})>>

rand2_source_rows == Row([setup |-> <<Get("source")>>, loop |-> <<Work({"source"})>>])
rand2_global_rows == Plain(<<Work({})>>)
rand2_rows        == Row([setup |-> test_rand, loop |-> Draw])
rand2_global_intn1000 == Row([setup |-> hidden_i64, loop |-> <<Work({})>>])
rand2_intn1000    == Row([setup |-> test_rand \o hidden_i64, loop |-> Draw])
int64n            == Row([setup |-> test_rand \o hidden_i64, loop |-> Draw])
rand2_int64n_rows == int64n
int32n            == Row([setup |-> test_rand \o hidden_i64, loop |-> Draw])
rand2_int32n_rows == int32n
rand2_float_rows  == Row([setup |-> test_rand, loop |-> Draw])
rand2_perm3       == KeptRow(test_rand, <<In("p", "ar"), Work({"p", "gen", "source"})>>, <<>>)

rand_int63_threadsafe == Plain(<<Work({})>>)
rand_rows    == Row([setup |-> test_rand1, loop |-> Draw])
rand_perm30  == KeptRow(test_rand1, <<In("p", "ar"), Work({"p", "gen", "source"})>>, <<>>)
rand_shuffle_overhead == Row([setup |-> test_rand1, loop |-> Draw])
read_n       == Row([setup |-> test_rand1, loop |-> Draw])
rand_read_rows == read_n

RandRows == <<rand2_source_rows, rand2_global_rows, rand2_rows, rand2_global_intn1000, rand2_intn1000,
              rand2_int64n_rows, rand2_int32n_rows, rand2_float_rows, rand2_perm3,
              rand_int63_threadsafe, rand_rows, rand_perm30, rand_shuffle_overhead, rand_read_rows>>

----------------------------------------------------------------------------
(* strconv_bench.c.  What is appended fits the static buffer, and a string  *)
(* without escapes is returned as it is; the mark of the other is the empty *)
(* arena.                                                                   *)
strconv_parse_rows  == Plain(<<Work({})>>)
strconv_append_rows == Plain(<<Work({})>>)
atof64              == Plain(<<Work({})>>)
strconv_atof_rows   == atof64
ftoa                == Plain(<<Work({})>>)
strconv_ftoa_rows   == ftoa
strconv_quote_rows  == Plain(<<Work({})>>)
strconv_unquote_easy == Held(<<>>, <<Work({"ar"})>>)
strconv_unquote_hard == ResultRow

StrconvRows == <<strconv_parse_rows, strconv_append_rows, strconv_atof_rows, strconv_ftoa_rows,
                 strconv_quote_rows, strconv_unquote_easy, strconv_unquote_hard>>

----------------------------------------------------------------------------
(* iface_bench.c.  word is where the stream of bytes has been read to: 0 at *)
(* the start, 1 behind four kilobytes, 2 at the end.                        *)
iface_call_rows   == Plain(<<Work({})>>)
iface_narrow      == Plain(<<Work({})>>)
iface_assert_rows == Plain(<<Work({})>>)
any_make          == Plain(<<Work({})>>)
any_box           == ResultRow
any_assert_rows   == Plain(<<Work({})>>)

source_read(to) == Shift("word", 0, to)

io_copy_buffer_64k == Row([setup |-> <<Store("word", 0)>>, loop |-> <<Store("word", 0), source_read(2)>>])
io_read_full_4k    == Row([setup |-> <<Store("word", 0)>>, loop |-> <<Store("word", 0), source_read(1)>>])

IfaceRows == <<iface_call_rows, iface_narrow, iface_assert_rows, any_make, any_box, any_assert_rows,
               io_copy_buffer_64k, io_read_full_4k>>

NumberRows == StrRows \o Utf8Rows \o StringsRows \o RegexpRows \o NetipRows \o HashRows \o BigRows \o
              NumRows \o RandRows \o StrconvRows \o IfaceRows
=============================================================================
