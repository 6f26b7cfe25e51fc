--------------------------- MODULE Configuration ----------------------------
(***************************************************************************)
(* The configuration file and the options read from it.                    *)
(*                                                                         *)
(* A line of the file is [comment, tokens]: whether it begins with # or %, *)
(* and what stands between its equality signs (several in a row count as   *)
(* one).  A token is [text, blanks]: it may have blanks around its text,   *)
(* and may consist of them.  A text is [word, number]: as it stands, and   *)
(* the number atof finds at its beginning, in hundredths (0 if none).      *)
(***************************************************************************)
EXTENDS Integers, Sequences, SequencesExt

\* trim: the blanks are removed, the text stays.
trim(token) == token.text

\* A line with a key and a value; more tokens are ignored.
IsSetting(l) == ~l.comment /\ Len(l.tokens) >= 2

\* conf[key] = value of a map.
Assigned(conf, key, value) ==
  [k \in DOMAIN conf \cup {key} |-> IF k = key THEN value ELSE conf[k]]

\* Faulty variant of loadconfig: the first setting of a key stays.
loadconfigFirst(lines) ==
  FoldLeft(LAMBDA conf, l :
             IF IsSetting(l) /\ trim(l.tokens[1]).word \notin DOMAIN conf
             THEN Assigned(conf, trim(l.tokens[1]).word, trim(l.tokens[2]))
             ELSE conf,
           << >>, lines)

\* The lines are read from the first to the last; a later setting of the same
\* key replaces an earlier one.
loadconfig(lines) ==
  FoldLeft(LAMBDA conf, l :
             IF IsSetting(l)
             THEN Assigned(conf, trim(l.tokens[1]).word, trim(l.tokens[2]))
             ELSE conf,
           << >>, lines)

-----------------------------------------------------------------------------
(* Options of a loaded configuration, or their defaults.                   *)

\* atoi and atol stop at the point: they round towards zero.
Whole(n) == IF n >= 0 THEN n \div 100 ELSE -((-n) \div 100)

get_config_option_string(conf, name, default) ==
  IF name \in DOMAIN conf THEN conf[name].word ELSE default

get_config_option_int(conf, name, default) ==
  IF name \in DOMAIN conf THEN Whole(conf[name].number) ELSE default

get_config_option_long(conf, name, default) ==
  IF name \in DOMAIN conf THEN Whole(conf[name].number) ELSE default

\* In hundredths.
get_config_option_double(conf, name, default) ==
  IF name \in DOMAIN conf THEN conf[name].number ELSE default

\* What the constructor of MaiterKernel takes from the configuration (portion,
\* interval and threshold in hundredths).
MaiterKernel(conf) ==
  [num_threads |-> get_config_option_int(conf, "THREADS", 0),
   num_nodes |-> get_config_option_long(conf, "NODES", 0),
   schedule_portion |-> get_config_option_double(conf, "PORTION", 0),
   input |-> get_config_option_string(conf, "INPUT", "input/pagerank"),
   output |-> get_config_option_string(conf, "RESULT", "input/pagerank"),
   termcheck_interval |-> get_config_option_double(conf, "TERMCHECKINTERVAL", 100),
   termcheck_threshold |-> get_config_option_double(conf, "TERMTHRESH", 0)]

=============================================================================
