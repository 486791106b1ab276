---------------------------- MODULE CpcCompressor ----------------------------
(***************************************************************************)
(* The bit stream of the CPC compressor.  Codes are packed into a 64-bit   *)
(* buffer, lowest bit first, and leave it as 32-bit words; a writer is     *)
(* [buf, words, ok] and a reader [buf, words, index, ok], with buf the     *)
(* sequence of the bits in use (bufbits is its length), words a sequence   *)
(* of words of 32 bits, index the number of words taken.  ok turns false   *)
(* where bits would fall out of the buffer, where the code throws and      *)
(* where it reads behind the last word.  A pair is <<row, column>>.        *)
(***************************************************************************)
EXTENDS Integers, Sequences, SequencesExt, FiniteSetsExt

(***************************************************************************)
(* The code tables of the CPC compressor.  An entry of an encoding table   *)
(* is the length of a codeword in bits, times 4096, plus the codeword,     *)
(* whose lowest bit is written first.  Tables 0 .. 15 are for the steady   *)
(* state, 16 .. 21 for the mid-range.                                      *)
(***************************************************************************)
encoding_table_0 ==
  <<\h9017,\h5009,\h7033,\h3002,\h9117,\h5019,\h7073,\h2000,\ha177,\h601d,
    \h803b,\h4001,\ha377,\h5005,\h80bb,\h3006,\hb0cf,\h700b,\ha0f7,\h5015,
    \hb4cf,\h704b,\h9097,\h500d,\hc4af,\h807b,\ha2f7,\h603d,\hccaf,\h80fb,
    \ha1f7,\h6003,\hc2af,\h8007,\hb2cf,\h6023,\hcaaf,\h8087,\ha3f7,\h6013,
    \hc6af,\h9197,\hceaf,\h702b,\hc1af,\h9057,\hb6cf,\h706b,\hc9af,\ha00f,
    \hc5af,\h8047,\hcdaf,\ha20f,\hc3af,\h80c7,\hcbaf,\hb1cf,\hc7af,\h9157,
    \hcfaf,\hb5cf,\hc06f,\h90d7,\hc86f,\h91d7,\hc46f,\h701b,\hcc6f,\h9037,
    \hb3cf,\h705b,\hc26f,\ha10f,\hca6f,\h8027,\hc66f,\ha30f,\hce6f,\h80a7,
    \hc16f,\hb7cf,\hc96f,\h9137,\hc56f,\hb02f,\hcd6f,\h90b7,\hc36f,\hcb6f,
    \hc76f,\ha08f,\hcf6f,\hc0ef,\hc8ef,\ha28f,\hc4ef,\hccef,\hc2ef,\ha18f,
    \hcaef,\hc6ef,\hceef,\ha38f,\hc1ef,\hc9ef,\hc5ef,\hb42f,\hcdef,\hc3ef,
    \hcbef,\hb22f,\hc7ef,\hcfef,\hc01f,\hc81f,\hc41f,\hcc1f,\hc21f,\hca1f,
    \hc61f,\hce1f,\hc11f,\hc91f,\hc51f,\hcd1f,\hc31f,\hcb1f,\hc71f,\ha04f,
    \hcf1f,\h8067,\hc09f,\ha24f,\hc89f,\h80e7,\hc49f,\hb62f,\hcc9f,\h91b7,
    \hc29f,\hb12f,\hca9f,\h9077,\hc69f,\hce9f,\hc19f,\ha14f,\hc99f,\hc59f,
    \hcd9f,\ha34f,\hc39f,\hcb9f,\hc79f,\hb52f,\hcf9f,\hc05f,\hc85f,\hb32f,
    \hc45f,\hcc5f,\hc25f,\hb72f,\hca5f,\hc65f,\hce5f,\hb0af,\hc15f,\hc95f,
    \hc55f,\hcd5f,\hc35f,\hcb5f,\hc75f,\hcf5f,\hc0df,\hc8df,\hc4df,\hccdf,
    \hc2df,\hcadf,\hc6df,\hcedf,\hc1df,\hc9df,\hc5df,\hcddf,\hc3df,\hcbdf,
    \hc7df,\hcfdf,\hc03f,\hc83f,\hc43f,\hcc3f,\hc23f,\hca3f,\hc63f,\hce3f,
    \hc13f,\hc93f,\hc53f,\hcd3f,\hc33f,\hcb3f,\hc73f,\hcf3f,\hc0bf,\hc8bf,
    \hc4bf,\hccbf,\hc2bf,\hcabf,\hc6bf,\hcebf,\hc1bf,\hc9bf,\hc5bf,\hcdbf,
    \hc3bf,\hcbbf,\hc7bf,\hcfbf,\hc07f,\hc87f,\hc47f,\hcc7f,\hc27f,\hca7f,
    \hc67f,\hce7f,\hc17f,\hc97f,\hc57f,\hcd7f,\hc37f,\hcb7f,\hc77f,\hcf7f,
    \hc0ff,\hc8ff,\hc4ff,\hccff,\hc2ff,\hcaff,\hc6ff,\hceff,\hc1ff,\hc9ff,
    \hc5ff,\hcdff,\hc3ff,\hcbff,\hc7ff,\hcfff>>
encoding_table_1 ==
  <<\ha177,\h5009,\h803b,\h3002,\h9017,\h5019,\h700b,\h2000,\hb34f,\h601d,
    \h9117,\h4001,\ha377,\h603d,\h80bb,\h3006,\hc4af,\h704b,\ha0f7,\h5005,
    \hb74f,\h702b,\h9097,\h5015,\hccaf,\h807b,\hb0cf,\h6003,\hc2af,\h80fb,
    \ha2f7,\h500d,\hcaaf,\h8007,\hb4cf,\h6023,\hc6af,\h8087,\ha1f7,\h6013,
    \hceaf,\h9197,\hc1af,\h706b,\hc9af,\h9057,\hb2cf,\h6033,\hc5af,\ha3f7,
    \hcdaf,\h8047,\hc3af,\ha00f,\hcbaf,\h80c7,\hc7af,\hb6cf,\hcfaf,\h9157,
    \hc06f,\hb1cf,\hc86f,\h90d7,\hc46f,\h91d7,\hcc6f,\h701b,\hc26f,\h9037,
    \hb5cf,\h705b,\hca6f,\ha20f,\hc66f,\h8027,\hce6f,\ha10f,\hc16f,\h80a7,
    \hc96f,\hb3cf,\hc56f,\h9137,\hcd6f,\hb7cf,\hc36f,\h90b7,\hcb6f,\hc76f,
    \hcf6f,\ha30f,\hc0ef,\hc8ef,\hc4ef,\ha08f,\hccef,\hc2ef,\hcaef,\ha28f,
    \hc6ef,\hceef,\hc1ef,\ha18f,\hc9ef,\hc5ef,\hcdef,\hb02f,\hc3ef,\hcbef,
    \hc7ef,\hb42f,\hcfef,\hc01f,\hc81f,\hc41f,\hcc1f,\hc21f,\hca1f,\hc61f,
    \hce1f,\hc11f,\hc91f,\hc51f,\hcd1f,\hc31f,\hcb1f,\hc71f,\hcf1f,\ha38f,
    \hc09f,\h8067,\hc89f,\ha04f,\hc49f,\h80e7,\hcc9f,\hb22f,\hc29f,\h91b7,
    \hca9f,\hb62f,\hc69f,\h9077,\hce9f,\hc19f,\hc99f,\ha24f,\hc59f,\hcd9f,
    \hc39f,\ha14f,\hcb9f,\hc79f,\hcf9f,\hb12f,\hc05f,\hc85f,\hc45f,\hb52f,
    \hcc5f,\hc25f,\hca5f,\hb32f,\hc65f,\hce5f,\hc15f,\hb72f,\hc95f,\hc55f,
    \hcd5f,\hc35f,\hcb5f,\hc75f,\hcf5f,\hb0af,\hc0df,\hc8df,\hc4df,\hccdf,
    \hc2df,\hcadf,\hc6df,\hcedf,\hc1df,\hc9df,\hc5df,\hcddf,\hc3df,\hcbdf,
    \hc7df,\hcfdf,\hc03f,\hc83f,\hc43f,\hcc3f,\hc23f,\hca3f,\hc63f,\hce3f,
    \hc13f,\hc93f,\hc53f,\hcd3f,\hc33f,\hcb3f,\hc73f,\hcf3f,\hc0bf,\hc8bf,
    \hc4bf,\hccbf,\hc2bf,\hcabf,\hc6bf,\hcebf,\hc1bf,\hc9bf,\hc5bf,\hcdbf,
    \hc3bf,\hcbbf,\hc7bf,\hcfbf,\hc07f,\hc87f,\hc47f,\hcc7f,\hc27f,\hca7f,
    \hc67f,\hce7f,\hc17f,\hc97f,\hc57f,\hcd7f,\hc37f,\hcb7f,\hc77f,\hcf7f,
    \hc0ff,\hc8ff,\hc4ff,\hccff,\hc2ff,\hcaff,\hc6ff,\hceff,\hc1ff,\hc9ff,
    \hc5ff,\hcdff,\hc3ff,\hcbff,\hc7ff,\hcfff>>
encoding_table_2 ==
  <<\ha177,\h5009,\h803b,\h3002,\ha377,\h5019,\h80bb,\h2000,\hb34f,\h601d,
    \h9057,\h4001,\hb74f,\h603d,\h807b,\h3006,\hc72f,\h700b,\ha0f7,\h5005,
    \hcf2f,\h704b,\ha2f7,\h5015,\hc0af,\h80fb,\hb0cf,\h6003,\hc8af,\h8007,
    \ha1f7,\h500d,\hc4af,\h8087,\hb4cf,\h6023,\hccaf,\h8047,\hb2cf,\h6013,
    \hc2af,\h9157,\hcaaf,\h702b,\hc6af,\h90d7,\hceaf,\h6033,\hc1af,\ha3f7,
    \hc9af,\h80c7,\hc5af,\ha00f,\hcdaf,\h8027,\hc3af,\hb6cf,\hcbaf,\h91d7,
    \hc7af,\hb1cf,\hcfaf,\h80a7,\hc06f,\h9037,\hc86f,\h706b,\hc46f,\h9137,
    \hcc6f,\h701b,\hc26f,\ha20f,\hca6f,\h8067,\hc66f,\ha10f,\hce6f,\h705b,
    \hc16f,\hb5cf,\hc96f,\h90b7,\hc56f,\hb3cf,\hcd6f,\h91b7,\hc36f,\hcb6f,
    \hc76f,\ha30f,\hcf6f,\hc0ef,\hc8ef,\ha08f,\hc4ef,\hccef,\hc2ef,\ha28f,
    \hcaef,\hc6ef,\hceef,\ha18f,\hc1ef,\hc9ef,\hc5ef,\hb7cf,\hcdef,\hc3ef,
    \hcbef,\hb02f,\hc7ef,\hcfef,\hc01f,\hc81f,\hc41f,\hcc1f,\hc21f,\hca1f,
    \hc61f,\hce1f,\hc11f,\hc91f,\hc51f,\hcd1f,\hc31f,\hcb1f,\hc71f,\ha38f,
    \hcf1f,\h80e7,\hc09f,\ha04f,\hc89f,\h8017,\hc49f,\hb42f,\hcc9f,\h9077,
    \hc29f,\hb22f,\hca9f,\h8097,\hc69f,\hce9f,\hc19f,\ha24f,\hc99f,\hc59f,
    \hcd9f,\ha14f,\hc39f,\hcb9f,\hc79f,\hb62f,\hcf9f,\hc05f,\hc85f,\hb12f,
    \hc45f,\hcc5f,\hc25f,\hb52f,\hca5f,\hc65f,\hce5f,\hb32f,\hc15f,\hc95f,
    \hc55f,\hcd5f,\hc35f,\hcb5f,\hc75f,\hcf5f,\hc0df,\hc8df,\hc4df,\hccdf,
    \hc2df,\hcadf,\hc6df,\hcedf,\hc1df,\hc9df,\hc5df,\hcddf,\hc3df,\hcbdf,
    \hc7df,\hcfdf,\hc03f,\hc83f,\hc43f,\hcc3f,\hc23f,\hca3f,\hc63f,\hce3f,
    \hc13f,\hc93f,\hc53f,\hcd3f,\hc33f,\hcb3f,\hc73f,\hcf3f,\hc0bf,\hc8bf,
    \hc4bf,\hccbf,\hc2bf,\hcabf,\hc6bf,\hcebf,\hc1bf,\hc9bf,\hc5bf,\hcdbf,
    \hc3bf,\hcbbf,\hc7bf,\hcfbf,\hc07f,\hc87f,\hc47f,\hcc7f,\hc27f,\hca7f,
    \hc67f,\hce7f,\hc17f,\hc97f,\hc57f,\hcd7f,\hc37f,\hcb7f,\hc77f,\hcf7f,
    \hc0ff,\hc8ff,\hc4ff,\hccff,\hc2ff,\hcaff,\hc6ff,\hceff,\hc1ff,\hc9ff,
    \hc5ff,\hcdff,\hc3ff,\hcbff,\hc7ff,\hcfff>>
encoding_table_3 ==
  <<\hb24f,\h601d,\h9097,\h3002,\ha1f7,\h5005,\h807b,\h2000,\hc52f,\h603d,
    \h9197,\h4001,\hb64f,\h6003,\h9057,\h3006,\hcd2f,\h80fb,\hb14f,\h5015,
    \hc32f,\h702b,\ha3f7,\h4009,\hcb2f,\h8007,\hb54f,\h6023,\hc72f,\h8087,
    \hb34f,\h500d,\hcf2f,\h9157,\hc0af,\h6013,\hc8af,\h8047,\hb74f,\h6033,
    \hc4af,\h90d7,\hccaf,\h706b,\hc2af,\h91d7,\hcaaf,\h600b,\hc6af,\hb0cf,
    \hceaf,\h80c7,\hc1af,\ha00f,\hc9af,\h8027,\hc5af,\hb4cf,\hcdaf,\h9037,
    \hc3af,\hb2cf,\hcbaf,\h80a7,\hc7af,\ha20f,\hcfaf,\h701b,\hc06f,\h9137,
    \hc86f,\h705b,\hc46f,\hb6cf,\hcc6f,\h8067,\hc26f,\ha10f,\hca6f,\h703b,
    \hc66f,\hce6f,\hc16f,\h90b7,\hc96f,\hb1cf,\hc56f,\h91b7,\hcd6f,\hc36f,
    \hcb6f,\ha30f,\hc76f,\hcf6f,\hc0ef,\h9077,\hc8ef,\hc4ef,\hccef,\ha08f,
    \hc2ef,\hcaef,\hc6ef,\ha28f,\hceef,\hc1ef,\hc9ef,\hb5cf,\hc5ef,\hcdef,
    \hc3ef,\hb3cf,\hcbef,\hc7ef,\hcfef,\hc01f,\hc81f,\hc41f,\hcc1f,\hc21f,
    \hca1f,\hc61f,\hce1f,\hc11f,\hc91f,\hc51f,\hcd1f,\hc31f,\hcb1f,\hb7cf,
    \hc71f,\h80e7,\hcf1f,\ha18f,\hc09f,\h8017,\hc89f,\hc49f,\hcc9f,\h9177,
    \hc29f,\hb02f,\hca9f,\h90f7,\hc69f,\hce9f,\hc19f,\ha38f,\hc99f,\hc59f,
    \hcd9f,\ha04f,\hc39f,\hcb9f,\hc79f,\hb42f,\hcf9f,\hc05f,\hc85f,\hb22f,
    \hc45f,\hcc5f,\hc25f,\hb62f,\hca5f,\hc65f,\hce5f,\hb12f,\hc15f,\hc95f,
    \hc55f,\hcd5f,\hc35f,\hcb5f,\hc75f,\hcf5f,\hc0df,\hc8df,\hc4df,\hccdf,
    \hc2df,\hcadf,\hc6df,\hcedf,\hc1df,\hc9df,\hc5df,\hcddf,\hc3df,\hcbdf,
    \hc7df,\hcfdf,\hc03f,\hc83f,\hc43f,\hcc3f,\hc23f,\hca3f,\hc63f,\hce3f,
    \hc13f,\hc93f,\hc53f,\hcd3f,\hc33f,\hcb3f,\hc73f,\hcf3f,\hc0bf,\hc8bf,
    \hc4bf,\hccbf,\hc2bf,\hcabf,\hc6bf,\hcebf,\hc1bf,\hc9bf,\hc5bf,\hcdbf,
    \hc3bf,\hcbbf,\hc7bf,\hcfbf,\hc07f,\hc87f,\hc47f,\hcc7f,\hc27f,\hca7f,
    \hc67f,\hce7f,\hc17f,\hc97f,\hc57f,\hcd7f,\hc37f,\hcb7f,\hc77f,\hcf7f,
    \hc0ff,\hc8ff,\hc4ff,\hccff,\hc2ff,\hcaff,\hc6ff,\hceff,\hc1ff,\hc9ff,
    \hc5ff,\hcdff,\hc3ff,\hcbff,\hc7ff,\hcfff>>
encoding_table_4 ==
  <<\hb24f,\h601d,\h9057,\h3002,\hb64f,\h5005,\h807b,\h2000,\hc32f,\h700b,
    \ha0f7,\h4001,\hb14f,\h603d,\h9157,\h3006,\hcb2f,\h80fb,\hb54f,\h5015,
    \hc72f,\h704b,\ha2f7,\h4009,\hcf2f,\h8007,\hb34f,\h6003,\hc0af,\h8087,
    \hb74f,\h500d,\hc8af,\h90d7,\hc4af,\h6023,\hccaf,\h8047,\hb0cf,\h6013,
    \hc2af,\ha1f7,\hcaaf,\h702b,\hc6af,\h91d7,\hceaf,\h6033,\hc1af,\hb4cf,
    \hc9af,\h80c7,\hc5af,\ha3f7,\hcdaf,\h706b,\hc3af,\hb2cf,\hcbaf,\h9037,
    \hc7af,\hb6cf,\hcfaf,\h8027,\hc06f,\ha00f,\hc86f,\h701b,\hc46f,\h9137,
    \hcc6f,\h705b,\hc26f,\hb1cf,\hca6f,\h80a7,\hc66f,\ha20f,\hce6f,\h703b,
    \hc16f,\hc96f,\hc56f,\h90b7,\hcd6f,\hb5cf,\hc36f,\h8067,\hcb6f,\hc76f,
    \hcf6f,\ha10f,\hc0ef,\hc8ef,\hc4ef,\h91b7,\hccef,\hc2ef,\hcaef,\ha30f,
    \hc6ef,\hceef,\hc1ef,\ha08f,\hc9ef,\hc5ef,\hcdef,\hb3cf,\hc3ef,\hcbef,
    \hc7ef,\ha28f,\hcfef,\hc01f,\hc81f,\hc41f,\hcc1f,\hc21f,\hca1f,\hb7cf,
    \hc61f,\hce1f,\hc11f,\hc91f,\hc51f,\hcd1f,\hc31f,\hcb1f,\hc71f,\hb02f,
    \hcf1f,\h80e7,\hc09f,\ha18f,\hc89f,\h8017,\hc49f,\hcc9f,\hc29f,\h9077,
    \hca9f,\hb42f,\hc69f,\h8097,\hce9f,\hc19f,\hc99f,\ha38f,\hc59f,\hcd9f,
    \hc39f,\h9177,\hcb9f,\hc79f,\hcf9f,\hb22f,\hc05f,\hc85f,\hc45f,\ha04f,
    \hcc5f,\hc25f,\hca5f,\hb62f,\hc65f,\hce5f,\hc15f,\hb12f,\hc95f,\hc55f,
    \hcd5f,\hc35f,\hcb5f,\hc75f,\hcf5f,\hb52f,\hc0df,\hc8df,\hc4df,\hccdf,
    \hc2df,\hcadf,\hc6df,\hcedf,\hc1df,\hc9df,\hc5df,\hcddf,\hc3df,\hcbdf,
    \hc7df,\hcfdf,\hc03f,\hc83f,\hc43f,\hcc3f,\hc23f,\hca3f,\hc63f,\hce3f,
    \hc13f,\hc93f,\hc53f,\hcd3f,\hc33f,\hcb3f,\hc73f,\hcf3f,\hc0bf,\hc8bf,
    \hc4bf,\hccbf,\hc2bf,\hcabf,\hc6bf,\hcebf,\hc1bf,\hc9bf,\hc5bf,\hcdbf,
    \hc3bf,\hcbbf,\hc7bf,\hcfbf,\hc07f,\hc87f,\hc47f,\hcc7f,\hc27f,\hca7f,
    \hc67f,\hce7f,\hc17f,\hc97f,\hc57f,\hcd7f,\hc37f,\hcb7f,\hc77f,\hcf7f,
    \hc0ff,\hc8ff,\hc4ff,\hccff,\hc2ff,\hcaff,\hc6ff,\hceff,\hc1ff,\hc9ff,
    \hc5ff,\hcdff,\hc3ff,\hcbff,\hc7ff,\hcfff>>
encoding_table_5 ==
  <<\hc12f,\h601d,\h9057,\h3002,\hb14f,\h5005,\h807b,\h2000,\hc92f,\h700b,
    \ha1f7,\h4001,\hc52f,\h603d,\h9157,\h3006,\hcd2f,\h80fb,\hb54f,\h5015,
    \hc32f,\h704b,\ha3f7,\h4009,\hcb2f,\h8007,\hc72f,\h6003,\hcf2f,\h8087,
    \hb34f,\h500d,\hc0af,\h90d7,\hc8af,\h6023,\hc4af,\h8047,\hb74f,\h6013,
    \hccaf,\ha00f,\hc2af,\h702b,\hcaaf,\h91d7,\hc6af,\h6033,\hceaf,\hb0cf,
    \hc1af,\h80c7,\hc9af,\ha20f,\hc5af,\h706b,\hcdaf,\hc3af,\hcbaf,\h9037,
    \hc7af,\hb4cf,\hcfaf,\h8027,\hc06f,\ha10f,\hc86f,\h701b,\hc46f,\h9137,
    \hcc6f,\h705b,\hc26f,\hb2cf,\hca6f,\h80a7,\hc66f,\ha30f,\hce6f,\h703b,
    \hc16f,\hc96f,\hc56f,\h90b7,\hcd6f,\hb6cf,\hc36f,\h8067,\hcb6f,\hc76f,
    \hcf6f,\ha08f,\hc0ef,\hc8ef,\hc4ef,\h91b7,\hccef,\hc2ef,\hcaef,\ha28f,
    \hc6ef,\hceef,\hc1ef,\h9077,\hc9ef,\hc5ef,\hcdef,\hb1cf,\hc3ef,\hcbef,
    \hc7ef,\ha18f,\hcfef,\hc01f,\hc81f,\hc41f,\hcc1f,\hc21f,\hca1f,\hb5cf,
    \hc61f,\hce1f,\hc11f,\hc91f,\hc51f,\hcd1f,\hc31f,\hcb1f,\hc71f,\hb3cf,
    \hcf1f,\h80e7,\hc09f,\ha38f,\hc89f,\h8017,\hc49f,\hcc9f,\hc29f,\h9177,
    \hca9f,\hb7cf,\hc69f,\h8097,\hce9f,\hc19f,\hc99f,\ha04f,\hc59f,\hcd9f,
    \hc39f,\h90f7,\hcb9f,\hc79f,\hcf9f,\hb02f,\hc05f,\hc85f,\hc45f,\ha24f,
    \hcc5f,\hc25f,\hca5f,\hb42f,\hc65f,\hce5f,\hc15f,\hb22f,\hc95f,\hc55f,
    \hcd5f,\hc35f,\hcb5f,\hc75f,\hcf5f,\hb62f,\hc0df,\hc8df,\hc4df,\hccdf,
    \hc2df,\hcadf,\hc6df,\hcedf,\hc1df,\hc9df,\hc5df,\hcddf,\hc3df,\hcbdf,
    \hc7df,\hcfdf,\hc03f,\hc83f,\hc43f,\hcc3f,\hc23f,\hca3f,\hc63f,\hce3f,
    \hc13f,\hc93f,\hc53f,\hcd3f,\hc33f,\hcb3f,\hc73f,\hcf3f,\hc0bf,\hc8bf,
    \hc4bf,\hccbf,\hc2bf,\hcabf,\hc6bf,\hcebf,\hc1bf,\hc9bf,\hc5bf,\hcdbf,
    \hc3bf,\hcbbf,\hc7bf,\hcfbf,\hc07f,\hc87f,\hc47f,\hcc7f,\hc27f,\hca7f,
    \hc67f,\hce7f,\hc17f,\hc97f,\hc57f,\hcd7f,\hc37f,\hcb7f,\hc77f,\hcf7f,
    \hc0ff,\hc8ff,\hc4ff,\hccff,\hc2ff,\hcaff,\hc6ff,\hceff,\hc1ff,\hc9ff,
    \hc5ff,\hcdff,\hc3ff,\hcbff,\hc7ff,\hcfff>>
encoding_table_6 ==
  <<\h601d,\h3002,\h603d,\h2000,\h700b,\h4001,\h6003,\h3006,\h807b,\h5005,
    \h704b,\h4009,\h9097,\h6023,\h80fb,\h5015,\h9197,\h6013,\h8007,\h500d,
    \ha0f7,\h702b,\h9057,\h6033,\hb14f,\h8087,\ha2f7,\h706b,\hb54f,\h9157,
    \ha1f7,\h8047,\ha3f7,\h701b,\h90d7,\h705b,\hb34f,\h80c7,\ha00f,\h703b,
    \hc32f,\h91d7,\hb74f,\h8027,\hcb2f,\ha20f,\hb0cf,\h9037,\hc72f,\ha10f,
    \hcf2f,\h9137,\hc0af,\hb4cf,\hc8af,\ha30f,\hc4af,\hccaf,\hc2af,\hb2cf,
    \hcaaf,\hc6af,\hceaf,\hb6cf,\hb1cf,\h80a7,\ha08f,\h8067,\hc1af,\h90b7,
    \hb5cf,\h80e7,\hc9af,\ha28f,\hc5af,\h91b7,\hcdaf,\hb3cf,\hc3af,\ha18f,
    \hcbaf,\hb7cf,\hc7af,\ha38f,\hcfaf,\hc06f,\hc86f,\hb02f,\hc46f,\hcc6f,
    \hc26f,\hca6f,\hc66f,\hce6f,\hc16f,\hc96f,\hc56f,\hcd6f,\hc36f,\hb42f,
    \hcb6f,\hc76f,\hcf6f,\hc0ef,\hc8ef,\hc4ef,\hccef,\hc2ef,\hcaef,\hc6ef,
    \hceef,\hc1ef,\hc9ef,\hc5ef,\hcdef,\hc3ef,\hcbef,\hc7ef,\hcfef,\hc01f,
    \hc81f,\hc41f,\hcc1f,\hc21f,\hca1f,\hc61f,\hce1f,\hc11f,\hc91f,\h9077,
    \hb22f,\h8017,\hc51f,\ha04f,\hcd1f,\h9177,\hc31f,\hb62f,\hcb1f,\ha24f,
    \hc71f,\hcf1f,\hc09f,\hb12f,\hc89f,\hc49f,\hcc9f,\hb52f,\hc29f,\hca9f,
    \hc69f,\hce9f,\hc19f,\hc99f,\hc59f,\hcd9f,\hc39f,\hcb9f,\hc79f,\hcf9f,
    \hc05f,\hc85f,\hc45f,\hcc5f,\hc25f,\hca5f,\hc65f,\hce5f,\hc15f,\hc95f,
    \hc55f,\hcd5f,\hc35f,\hcb5f,\hc75f,\hcf5f,\hc0df,\hc8df,\hc4df,\hccdf,
    \hc2df,\hcadf,\hc6df,\hcedf,\hc1df,\hc9df,\hc5df,\hcddf,\hc3df,\hcbdf,
    \hc7df,\hcfdf,\hc03f,\hc83f,\hc43f,\hcc3f,\hc23f,\hca3f,\hc63f,\hce3f,
    \hc13f,\hc93f,\hc53f,\hcd3f,\hc33f,\hcb3f,\hc73f,\hcf3f,\hc0bf,\hc8bf,
    \hc4bf,\hccbf,\hc2bf,\hcabf,\hc6bf,\hcebf,\hc1bf,\hc9bf,\hc5bf,\hcdbf,
    \hc3bf,\hcbbf,\hc7bf,\hcfbf,\hc07f,\hc87f,\hc47f,\hcc7f,\hc27f,\hca7f,
    \hc67f,\hce7f,\hc17f,\hc97f,\hc57f,\hcd7f,\hc37f,\hcb7f,\hc77f,\hcf7f,
    \hc0ff,\hc8ff,\hc4ff,\hccff,\hc2ff,\hcaff,\hc6ff,\hceff,\hc1ff,\hc9ff,
    \hc5ff,\hcdff,\hc3ff,\hcbff,\hc7ff,\hcfff>>
encoding_table_7 ==
  <<\h700b,\h3002,\h601d,\h2000,\h704b,\h4001,\h603d,\h3006,\h8007,\h5005,
    \h702b,\h4009,\h9097,\h6003,\h8087,\h5015,\h9197,\h6023,\h8047,\h500d,
    \ha0f7,\h706b,\h9057,\h6013,\hb14f,\h80c7,\ha2f7,\h701b,\hc52f,\h9157,
    \hb54f,\h8027,\ha1f7,\h705b,\h90d7,\h6033,\hb34f,\h80a7,\ha3f7,\h703b,
    \hcd2f,\h91d7,\hb74f,\h8067,\hc32f,\ha00f,\hcb2f,\h9037,\hc72f,\ha20f,
    \hcf2f,\h9137,\hc0af,\hb0cf,\hc8af,\ha10f,\hc4af,\hccaf,\hc2af,\hb4cf,
    \hcaaf,\hc6af,\hceaf,\hb2cf,\hb6cf,\h80e7,\ha30f,\h707b,\hc1af,\h90b7,
    \hb1cf,\h8017,\hc9af,\ha08f,\hc5af,\h91b7,\hcdaf,\hb5cf,\hc3af,\ha28f,
    \hcbaf,\hb3cf,\hc7af,\ha18f,\hcfaf,\hc06f,\hc86f,\hb7cf,\hc46f,\hcc6f,
    \hc26f,\hca6f,\hc66f,\hce6f,\hc16f,\hc96f,\hc56f,\hcd6f,\hc36f,\hb02f,
    \hcb6f,\hc76f,\hcf6f,\hc0ef,\hc8ef,\hc4ef,\hccef,\hc2ef,\hcaef,\hc6ef,
    \hceef,\hc1ef,\hc9ef,\hc5ef,\hcdef,\hc3ef,\hcbef,\hc7ef,\hcfef,\hc01f,
    \hc81f,\hc41f,\hcc1f,\hc21f,\hca1f,\hc61f,\hce1f,\hc11f,\hc91f,\ha38f,
    \hb42f,\h9077,\hc51f,\ha04f,\hcd1f,\h9177,\hc31f,\hb22f,\hcb1f,\ha24f,
    \hc71f,\hcf1f,\hc09f,\hb62f,\hc89f,\hc49f,\hcc9f,\hb12f,\hc29f,\hca9f,
    \hc69f,\hce9f,\hc19f,\hc99f,\hc59f,\hcd9f,\hc39f,\hcb9f,\hc79f,\hcf9f,
    \hc05f,\hc85f,\hc45f,\hcc5f,\hc25f,\hca5f,\hc65f,\hce5f,\hc15f,\hc95f,
    \hc55f,\hcd5f,\hc35f,\hcb5f,\hc75f,\hcf5f,\hc0df,\hc8df,\hc4df,\hccdf,
    \hc2df,\hcadf,\hc6df,\hcedf,\hc1df,\hc9df,\hc5df,\hcddf,\hc3df,\hcbdf,
    \hc7df,\hcfdf,\hc03f,\hc83f,\hc43f,\hcc3f,\hc23f,\hca3f,\hc63f,\hce3f,
    \hc13f,\hc93f,\hc53f,\hcd3f,\hc33f,\hcb3f,\hc73f,\hcf3f,\hc0bf,\hc8bf,
    \hc4bf,\hccbf,\hc2bf,\hcabf,\hc6bf,\hcebf,\hc1bf,\hc9bf,\hc5bf,\hcdbf,
    \hc3bf,\hcbbf,\hc7bf,\hcfbf,\hc07f,\hc87f,\hc47f,\hcc7f,\hc27f,\hca7f,
    \hc67f,\hce7f,\hc17f,\hc97f,\hc57f,\hcd7f,\hc37f,\hcb7f,\hc77f,\hcf7f,
    \hc0ff,\hc8ff,\hc4ff,\hccff,\hc2ff,\hcaff,\hc6ff,\hceff,\hc1ff,\hc9ff,
    \hc5ff,\hcdff,\hc3ff,\hcbff,\hc7ff,\hcfff>>
encoding_table_8 ==
  <<\h7033,\h4006,\h601d,\h2000,\h7073,\h400e,\h603d,\h3002,\h807b,\h5005,
    \h700b,\h4001,\h9097,\h5015,\h80fb,\h4009,\ha0f7,\h6003,\h8007,\h500d,
    \ha2f7,\h704b,\h9197,\h6023,\hb34f,\h8087,\ha1f7,\h702b,\hb74f,\h8047,
    \ha3f7,\h706b,\hb0cf,\h701b,\h9057,\h6013,\hb4cf,\h80c7,\ha00f,\h705b,
    \hc72f,\h9157,\hb2cf,\h8027,\hcf2f,\h90d7,\hb6cf,\h80a7,\hc0af,\ha20f,
    \hc8af,\h91d7,\hc4af,\ha10f,\hccaf,\h9037,\hc2af,\hcaaf,\hc6af,\hb1cf,
    \hceaf,\hc1af,\hc9af,\hb5cf,\hc5af,\h8067,\ha30f,\h703b,\hcdaf,\h9137,
    \hb3cf,\h80e7,\hc3af,\ha08f,\hcbaf,\h90b7,\hc7af,\ha28f,\hcfaf,\h91b7,
    \hc06f,\hb7cf,\hc86f,\ha18f,\hc46f,\hb02f,\hcc6f,\ha38f,\hc26f,\hca6f,
    \hc66f,\hce6f,\hc16f,\hc96f,\hc56f,\hcd6f,\hc36f,\hcb6f,\hc76f,\hb42f,
    \hcf6f,\hc0ef,\hc8ef,\hb22f,\hc4ef,\hccef,\hc2ef,\hcaef,\hc6ef,\hceef,
    \hc1ef,\hc9ef,\hc5ef,\hcdef,\hc3ef,\hcbef,\hc7ef,\hcfef,\hc01f,\hc81f,
    \hc41f,\hcc1f,\hc21f,\hca1f,\hc61f,\hce1f,\hc11f,\hc91f,\hc51f,\h9077,
    \hcd1f,\h8017,\hc31f,\ha04f,\hcb1f,\h9177,\hc71f,\hb62f,\hcf1f,\ha24f,
    \hc09f,\hb12f,\hc89f,\ha14f,\hc49f,\hcc9f,\hc29f,\hb52f,\hca9f,\hc69f,
    \hce9f,\hb32f,\hc19f,\hc99f,\hc59f,\hcd9f,\hc39f,\hcb9f,\hc79f,\hcf9f,
    \hc05f,\hc85f,\hc45f,\hcc5f,\hc25f,\hca5f,\hc65f,\hce5f,\hc15f,\hc95f,
    \hc55f,\hcd5f,\hc35f,\hcb5f,\hc75f,\hcf5f,\hc0df,\hc8df,\hc4df,\hccdf,
    \hc2df,\hcadf,\hc6df,\hcedf,\hc1df,\hc9df,\hc5df,\hcddf,\hc3df,\hcbdf,
    \hc7df,\hcfdf,\hc03f,\hc83f,\hc43f,\hcc3f,\hc23f,\hca3f,\hc63f,\hce3f,
    \hc13f,\hc93f,\hc53f,\hcd3f,\hc33f,\hcb3f,\hc73f,\hcf3f,\hc0bf,\hc8bf,
    \hc4bf,\hccbf,\hc2bf,\hcabf,\hc6bf,\hcebf,\hc1bf,\hc9bf,\hc5bf,\hcdbf,
    \hc3bf,\hcbbf,\hc7bf,\hcfbf,\hc07f,\hc87f,\hc47f,\hcc7f,\hc27f,\hca7f,
    \hc67f,\hce7f,\hc17f,\hc97f,\hc57f,\hcd7f,\hc37f,\hcb7f,\hc77f,\hcf7f,
    \hc0ff,\hc8ff,\hc4ff,\hccff,\hc2ff,\hcaff,\hc6ff,\hceff,\hc1ff,\hc9ff,
    \hc5ff,\hcdff,\hc3ff,\hcbff,\hc7ff,\hcfff>>
encoding_table_9_typo ==
  <<\h7033,\h4006,\h601d,\h2000,\h7073,\h400e,\h603d,\h3002,\h9097,\h5005,
    \h700b,\h4001,\h9197,\h6003,\h807b,\h4009,\ha0f7,\h6023,\h80fb,\h5015,
    \ha2f7,\h704b,\h9057,\h500d,\hb34f,\h8007,\ha1f7,\h702b,\hc72f,\h8087,
    \ha3f7,\h706b,\hb74f,\h701b,\h9157,\h6013,\hb0cf,\h8047,\ha00f,\h705b,
    \hcf2f,\h90d7,\hb4cf,\h80c7,\hc0af,\h91d7,\hb2cf,\h8027,\hc8af,\ha20f,
    \hc4af,\h9037,\hccaf,\ha10f,\hc2af,\h9137,\hcaaf,\hc6af,\hceaf,\ha30f,
    \hc1af,\hc9af,\hc5af,\hb6cf,\hcdaf,\h80a7,\hb1cf,\h703b,\hc3af,\h90b7,
    \hb5cf,\h8067,\hcbaf,\ha08f,\hc7af,\h91b7,\hcfaf,\ha28f,\hc06f,\h9077,
    \hc86f,\hb3cf,\hc46f,\ha18f,\hcc6f,\hb7cf,\hc26f,\ha38f,\hca6f,\hc66f,
    \hce6f,\hb02f,\hc16f,\hc96f,\hc56f,\hcd6f,\hc36f,\hcb6f,\hc76f,\hb42f,
    \hcf6f,\hc0ef,\hc8ef,\hb22f,\hc4ef,\hccef,\hc2ef,\hcaef,\hc6ef,\hceef,
    \hc1ef,\hc9ef,\hc5ef,\hcdef,\hc3ef,\hcbef,\hc7ef,\hcfef,\hc01f,\hc81f,
    \hc41f,\hcc1f,\hc21f,\hca1f,\hc61f,\hce1f,\hc11f,\hc91f,\hc51f,\h9177,
    \hcd1f,\h80e7,\hc31f,\ha04f,\hcb1f,\h8017,\hc71f,\hb62f,\hcf1f,\ha24f,
    \hc09f,\hb12f,\hc89f,\ha14f,\hc49f,\hcc9f,\hc29f,\hb52f,\hca9f,\hc69f,
    \hce9f,\hb32f,\hc19f,\hc99f,\hc59f,\hcd9f,\hc39f,\hcb9f,\hc79f,\hcf9f,
    \hc05f,\hc85f,\hc45f,\hcc5f,\hc25f,\hca5f,\hc65f,\hce5f,\hc15f,\hc95f,
    \hc55f,\hcd5f,\hc35f,\hcb5f,\hc75f,\hcf5f,\hc0df,\hc8df,\hc4df,\hccdf,
    \hc2df,\hcadf,\hc6df,\hcedf,\hc1df,\hc9df,\hc5df,\hcddf,\hc3df,\hcbdf,
    \hc7df,\hcfdf,\hc03f,\hc83f,\hc43f,\hcc3f,\hc23f,\hca3f,\hc63f,\hce3f,
    \hc13e,\hc93f,\hc53f,\hcd3f,\hc33f,\hcb3f,\hc73f,\hcf3f,\hc0bf,\hc8bf,
    \hc4bf,\hccbf,\hc2bf,\hcabf,\hc6bf,\hcebf,\hc1bf,\hc9bf,\hc5bf,\hcdbf,
    \hc3bf,\hcbbf,\hc7bf,\hcfbf,\hc07f,\hc87f,\hc47f,\hcc7f,\hc27f,\hca7f,
    \hc67f,\hce7f,\hc17f,\hc97f,\hc57f,\hcd7f,\hc37f,\hcb7f,\hc77f,\hcf7f,
    \hc0ff,\hc8ff,\hc4ff,\hccff,\hc2ff,\hcaff,\hc6ff,\hceff,\hc1ff,\hc9ff,
    \hc5ff,\hcdff,\hc3ff,\hcbff,\hc7ff,\hcfff>>
encoding_table_9 ==
  <<\h7033,\h4006,\h601d,\h2000,\h7073,\h400e,\h603d,\h3002,\h9097,\h5005,
    \h700b,\h4001,\h9197,\h6003,\h807b,\h4009,\ha0f7,\h6023,\h80fb,\h5015,
    \ha2f7,\h704b,\h9057,\h500d,\hb34f,\h8007,\ha1f7,\h702b,\hc72f,\h8087,
    \ha3f7,\h706b,\hb74f,\h701b,\h9157,\h6013,\hb0cf,\h8047,\ha00f,\h705b,
    \hcf2f,\h90d7,\hb4cf,\h80c7,\hc0af,\h91d7,\hb2cf,\h8027,\hc8af,\ha20f,
    \hc4af,\h9037,\hccaf,\ha10f,\hc2af,\h9137,\hcaaf,\hc6af,\hceaf,\ha30f,
    \hc1af,\hc9af,\hc5af,\hb6cf,\hcdaf,\h80a7,\hb1cf,\h703b,\hc3af,\h90b7,
    \hb5cf,\h8067,\hcbaf,\ha08f,\hc7af,\h91b7,\hcfaf,\ha28f,\hc06f,\h9077,
    \hc86f,\hb3cf,\hc46f,\ha18f,\hcc6f,\hb7cf,\hc26f,\ha38f,\hca6f,\hc66f,
    \hce6f,\hb02f,\hc16f,\hc96f,\hc56f,\hcd6f,\hc36f,\hcb6f,\hc76f,\hb42f,
    \hcf6f,\hc0ef,\hc8ef,\hb22f,\hc4ef,\hccef,\hc2ef,\hcaef,\hc6ef,\hceef,
    \hc1ef,\hc9ef,\hc5ef,\hcdef,\hc3ef,\hcbef,\hc7ef,\hcfef,\hc01f,\hc81f,
    \hc41f,\hcc1f,\hc21f,\hca1f,\hc61f,\hce1f,\hc11f,\hc91f,\hc51f,\h9177,
    \hcd1f,\h80e7,\hc31f,\ha04f,\hcb1f,\h8017,\hc71f,\hb62f,\hcf1f,\ha24f,
    \hc09f,\hb12f,\hc89f,\ha14f,\hc49f,\hcc9f,\hc29f,\hb52f,\hca9f,\hc69f,
    \hce9f,\hb32f,\hc19f,\hc99f,\hc59f,\hcd9f,\hc39f,\hcb9f,\hc79f,\hcf9f,
    \hc05f,\hc85f,\hc45f,\hcc5f,\hc25f,\hca5f,\hc65f,\hce5f,\hc15f,\hc95f,
    \hc55f,\hcd5f,\hc35f,\hcb5f,\hc75f,\hcf5f,\hc0df,\hc8df,\hc4df,\hccdf,
    \hc2df,\hcadf,\hc6df,\hcedf,\hc1df,\hc9df,\hc5df,\hcddf,\hc3df,\hcbdf,
    \hc7df,\hcfdf,\hc03f,\hc83f,\hc43f,\hcc3f,\hc23f,\hca3f,\hc63f,\hce3f,
    \hc13f,\hc93f,\hc53f,\hcd3f,\hc33f,\hcb3f,\hc73f,\hcf3f,\hc0bf,\hc8bf,
    \hc4bf,\hccbf,\hc2bf,\hcabf,\hc6bf,\hcebf,\hc1bf,\hc9bf,\hc5bf,\hcdbf,
    \hc3bf,\hcbbf,\hc7bf,\hcfbf,\hc07f,\hc87f,\hc47f,\hcc7f,\hc27f,\hca7f,
    \hc67f,\hce7f,\hc17f,\hc97f,\hc57f,\hcd7f,\hc37f,\hcb7f,\hc77f,\hcf7f,
    \hc0ff,\hc8ff,\hc4ff,\hccff,\hc2ff,\hcaff,\hc6ff,\hceff,\hc1ff,\hc9ff,
    \hc5ff,\hcdff,\hc3ff,\hcbff,\hc7ff,\hcfff>>
encoding_table_10 ==
  <<\h700b,\h4006,\h601d,\h2000,\h807b,\h400e,\h603d,\h3002,\h9017,\h5005,
    \h704b,\h4001,\h9117,\h6003,\h80fb,\h4009,\ha177,\h6023,\h9097,\h5015,
    \ha377,\h702b,\h9197,\h500d,\hb34f,\h8007,\ha0f7,\h706b,\hc0af,\h8087,
    \ha2f7,\h701b,\hb74f,\h8047,\ha1f7,\h6013,\hb0cf,\h80c7,\ha3f7,\h6033,
    \hc8af,\h9057,\hb4cf,\h8027,\hc4af,\h9157,\hb2cf,\h80a7,\hccaf,\ha00f,
    \hc2af,\h90d7,\hcaaf,\ha20f,\hc6af,\h91d7,\hceaf,\hb6cf,\hc1af,\ha10f,
    \hc9af,\hc5af,\hcdaf,\ha30f,\hc3af,\h9037,\hb1cf,\h705b,\hcbaf,\h9137,
    \hb5cf,\h703b,\hc7af,\ha08f,\hcfaf,\h90b7,\hc06f,\ha28f,\hc86f,\h91b7,
    \hc46f,\hb3cf,\hcc6f,\ha18f,\hc26f,\hb7cf,\hca6f,\ha38f,\hc66f,\hce6f,
    \hc16f,\hb02f,\hc96f,\hc56f,\hcd6f,\hb42f,\hc36f,\hcb6f,\hc76f,\hb22f,
    \hcf6f,\hc0ef,\hc8ef,\hb62f,\hc4ef,\hccef,\hc2ef,\hcaef,\hc6ef,\hceef,
    \hc1ef,\hc9ef,\hc5ef,\hcdef,\hc3ef,\hcbef,\hc7ef,\hcfef,\hc01f,\hc81f,
    \hc41f,\hcc1f,\hc21f,\hca1f,\hc61f,\hce1f,\hc11f,\hc91f,\hc51f,\h9077,
    \hcd1f,\h8067,\hc31f,\ha04f,\hcb1f,\h80e7,\hc71f,\hb12f,\hcf1f,\ha24f,
    \hc09f,\hb52f,\hc89f,\ha14f,\hc49f,\hcc9f,\hc29f,\hb32f,\hca9f,\hc69f,
    \hce9f,\hb72f,\hc19f,\hc99f,\hc59f,\hcd9f,\hc39f,\hcb9f,\hc79f,\hcf9f,
    \hc05f,\hc85f,\hc45f,\hcc5f,\hc25f,\hca5f,\hc65f,\hce5f,\hc15f,\hc95f,
    \hc55f,\hcd5f,\hc35f,\hcb5f,\hc75f,\hcf5f,\hc0df,\hc8df,\hc4df,\hccdf,
    \hc2df,\hcadf,\hc6df,\hcedf,\hc1df,\hc9df,\hc5df,\hcddf,\hc3df,\hcbdf,
    \hc7df,\hcfdf,\hc03f,\hc83f,\hc43f,\hcc3f,\hc23f,\hca3f,\hc63f,\hce3f,
    \hc13f,\hc93f,\hc53f,\hcd3f,\hc33f,\hcb3f,\hc73f,\hcf3f,\hc0bf,\hc8bf,
    \hc4bf,\hccbf,\hc2bf,\hcabf,\hc6bf,\hcebf,\hc1bf,\hc9bf,\hc5bf,\hcdbf,
    \hc3bf,\hcbbf,\hc7bf,\hcfbf,\hc07f,\hc87f,\hc47f,\hcc7f,\hc27f,\hca7f,
    \hc67f,\hce7f,\hc17f,\hc97f,\hc57f,\hcd7f,\hc37f,\hcb7f,\hc77f,\hcf7f,
    \hc0ff,\hc8ff,\hc4ff,\hccff,\hc2ff,\hcaff,\hc6ff,\hceff,\hc1ff,\hc9ff,
    \hc5ff,\hcdff,\hc3ff,\hcbff,\hc7ff,\hcfff>>
encoding_table_11 ==
  <<\h803b,\h4006,\h601d,\h2000,\h80bb,\h400e,\h603d,\h3002,\h9017,\h5005,
    \h807b,\h4001,\h9117,\h6003,\h80fb,\h4009,\ha177,\h6023,\h9097,\h5015,
    \ha377,\h702b,\h9197,\h500d,\hb34f,\h8007,\ha0f7,\h6013,\hc0af,\h8087,
    \ha2f7,\h706b,\hb74f,\h8047,\ha1f7,\h6033,\hb0cf,\h80c7,\ha3f7,\h600b,
    \hc8af,\h9057,\hb4cf,\h8027,\hc4af,\h9157,\hb2cf,\h80a7,\hccaf,\ha00f,
    \hc2af,\h90d7,\hcaaf,\ha20f,\hc6af,\h91d7,\hceaf,\hb6cf,\hc1af,\ha10f,
    \hc9af,\hc5af,\hcdaf,\ha30f,\hc3af,\h9037,\hb1cf,\h701b,\hcbaf,\h9137,
    \hb5cf,\h705b,\hc7af,\ha08f,\hcfaf,\h90b7,\hc06f,\ha28f,\hc86f,\h91b7,
    \hc46f,\hb3cf,\hcc6f,\ha18f,\hc26f,\hb7cf,\hca6f,\ha38f,\hc66f,\hce6f,
    \hc16f,\hb02f,\hc96f,\hc56f,\hcd6f,\hb42f,\hc36f,\hcb6f,\hc76f,\hb22f,
    \hcf6f,\hc0ef,\hc8ef,\hb62f,\hc4ef,\hccef,\hc2ef,\hcaef,\hc6ef,\hceef,
    \hc1ef,\hc9ef,\hc5ef,\hcdef,\hc3ef,\hcbef,\hc7ef,\hcfef,\hc01f,\hc81f,
    \hc41f,\hcc1f,\hc21f,\hca1f,\hc61f,\hce1f,\hc11f,\hc91f,\hc51f,\ha04f,
    \hcd1f,\h8067,\hc31f,\ha24f,\hcb1f,\h80e7,\hc71f,\hb12f,\hcf1f,\h9077,
    \hc09f,\hb52f,\hc89f,\ha14f,\hc49f,\hcc9f,\hc29f,\hb32f,\hca9f,\hc69f,
    \hce9f,\hb72f,\hc19f,\hc99f,\hc59f,\hcd9f,\hc39f,\hcb9f,\hc79f,\hcf9f,
    \hc05f,\hc85f,\hc45f,\hcc5f,\hc25f,\hca5f,\hc65f,\hce5f,\hc15f,\hc95f,
    \hc55f,\hcd5f,\hc35f,\hcb5f,\hc75f,\hcf5f,\hc0df,\hc8df,\hc4df,\hccdf,
    \hc2df,\hcadf,\hc6df,\hcedf,\hc1df,\hc9df,\hc5df,\hcddf,\hc3df,\hcbdf,
    \hc7df,\hcfdf,\hc03f,\hc83f,\hc43f,\hcc3f,\hc23f,\hca3f,\hc63f,\hce3f,
    \hc13f,\hc93f,\hc53f,\hcd3f,\hc33f,\hcb3f,\hc73f,\hcf3f,\hc0bf,\hc8bf,
    \hc4bf,\hccbf,\hc2bf,\hcabf,\hc6bf,\hcebf,\hc1bf,\hc9bf,\hc5bf,\hcdbf,
    \hc3bf,\hcbbf,\hc7bf,\hcfbf,\hc07f,\hc87f,\hc47f,\hcc7f,\hc27f,\hca7f,
    \hc67f,\hce7f,\hc17f,\hc97f,\hc57f,\hcd7f,\hc37f,\hcb7f,\hc77f,\hcf7f,
    \hc0ff,\hc8ff,\hc4ff,\hccff,\hc2ff,\hcaff,\hc6ff,\hceff,\hc1ff,\hc9ff,
    \hc5ff,\hcdff,\hc3ff,\hcbff,\hc7ff,\hcfff>>
encoding_table_12 ==
  <<\h807b,\h4006,\h601d,\h2000,\h80fb,\h400e,\h700b,\h3002,\h9097,\h5005,
    \h8007,\h4001,\h9197,\h603d,\h8087,\h4009,\ha177,\h704b,\h9057,\h5015,
    \hb34f,\h702b,\h9157,\h500d,\hc72f,\h8047,\ha377,\h6003,\hcf2f,\h80c7,
    \ha0f7,\h6023,\hc0af,\h8027,\ha2f7,\h6013,\hc8af,\h80a7,\ha1f7,\h6033,
    \hc4af,\h90d7,\hb74f,\h706b,\hccaf,\h91d7,\hb0cf,\h701b,\hc2af,\ha3f7,
    \hcaaf,\h9037,\hc6af,\ha00f,\hceaf,\h9137,\hc1af,\hb4cf,\hc9af,\ha20f,
    \hc5af,\hb2cf,\hcdaf,\ha10f,\hc3af,\h90b7,\hb6cf,\h705b,\hcbaf,\h91b7,
    \hb1cf,\h703b,\hc7af,\ha30f,\hcfaf,\h8067,\hc06f,\ha08f,\hc86f,\h9077,
    \hc46f,\hb5cf,\hcc6f,\ha28f,\hc26f,\hb3cf,\hca6f,\ha18f,\hc66f,\hce6f,
    \hc16f,\hb7cf,\hc96f,\hc56f,\hcd6f,\hb02f,\hc36f,\hcb6f,\hc76f,\hb42f,
    \hcf6f,\hc0ef,\hc8ef,\hb22f,\hc4ef,\hccef,\hc2ef,\hcaef,\hc6ef,\hceef,
    \hc1ef,\hc9ef,\hc5ef,\hcdef,\hc3ef,\hcbef,\hc7ef,\hcfef,\hc01f,\hc81f,
    \hc41f,\hcc1f,\hc21f,\hca1f,\hc61f,\hce1f,\hc11f,\hc91f,\hc51f,\ha38f,
    \hcd1f,\h80e7,\hc31f,\ha04f,\hcb1f,\h8017,\hc71f,\hb62f,\hcf1f,\ha24f,
    \hc09f,\hb12f,\hc89f,\ha14f,\hc49f,\hcc9f,\hc29f,\hb52f,\hca9f,\hc69f,
    \hce9f,\hb32f,\hc19f,\hc99f,\hc59f,\hcd9f,\hc39f,\hcb9f,\hc79f,\hcf9f,
    \hc05f,\hc85f,\hc45f,\hcc5f,\hc25f,\hca5f,\hc65f,\hce5f,\hc15f,\hc95f,
    \hc55f,\hcd5f,\hc35f,\hcb5f,\hc75f,\hcf5f,\hc0df,\hc8df,\hc4df,\hccdf,
    \hc2df,\hcadf,\hc6df,\hcedf,\hc1df,\hc9df,\hc5df,\hcddf,\hc3df,\hcbdf,
    \hc7df,\hcfdf,\hc03f,\hc83f,\hc43f,\hcc3f,\hc23f,\hca3f,\hc63f,\hce3f,
    \hc13f,\hc93f,\hc53f,\hcd3f,\hc33f,\hcb3f,\hc73f,\hcf3f,\hc0bf,\hc8bf,
    \hc4bf,\hccbf,\hc2bf,\hcabf,\hc6bf,\hcebf,\hc1bf,\hc9bf,\hc5bf,\hcdbf,
    \hc3bf,\hcbbf,\hc7bf,\hcfbf,\hc07f,\hc87f,\hc47f,\hcc7f,\hc27f,\hca7f,
    \hc67f,\hce7f,\hc17f,\hc97f,\hc57f,\hcd7f,\hc37f,\hcb7f,\hc77f,\hcf7f,
    \hc0ff,\hc8ff,\hc4ff,\hccff,\hc2ff,\hcaff,\hc6ff,\hceff,\hc1ff,\hc9ff,
    \hc5ff,\hcdff,\hc3ff,\hcbff,\hc7ff,\hcfff>>
encoding_table_13 ==
  <<\h803b,\h4006,\h7033,\h3002,\h80bb,\h400e,\h7073,\h2000,\ha0f7,\h601d,
    \h807b,\h4001,\ha2f7,\h5005,\h80fb,\h4009,\hb34f,\h700b,\h9057,\h5015,
    \hb74f,\h704b,\h9157,\h500d,\hc72f,\h8007,\ha1f7,\h603d,\hcf2f,\h8087,
    \ha3f7,\h6003,\hc0af,\h8047,\ha00f,\h6023,\hc8af,\h80c7,\ha20f,\h6013,
    \hc4af,\h90d7,\hb0cf,\h702b,\hccaf,\h91d7,\hb4cf,\h706b,\hc2af,\ha10f,
    \hcaaf,\h8027,\hc6af,\ha30f,\hceaf,\h80a7,\hc1af,\hb2cf,\hc9af,\ha08f,
    \hc5af,\hb6cf,\hcdaf,\ha28f,\hc3af,\h9037,\hb1cf,\h701b,\hcbaf,\h9137,
    \hb5cf,\h705b,\hc7af,\ha18f,\hcfaf,\h8067,\hc06f,\ha38f,\hc86f,\h80e7,
    \hc46f,\hb3cf,\hcc6f,\h90b7,\hc26f,\hb7cf,\hca6f,\h91b7,\hc66f,\hce6f,
    \hc16f,\hb02f,\hc96f,\hc56f,\hcd6f,\hb42f,\hc36f,\hcb6f,\hc76f,\hb22f,
    \hcf6f,\hc0ef,\hc8ef,\hb62f,\hc4ef,\hccef,\hc2ef,\hcaef,\hc6ef,\hceef,
    \hc1ef,\hc9ef,\hc5ef,\hcdef,\hc3ef,\hcbef,\hc7ef,\hcfef,\hc01f,\hc81f,
    \hc41f,\hcc1f,\hc21f,\hca1f,\hc61f,\hce1f,\hc11f,\hc91f,\hc51f,\ha04f,
    \hcd1f,\h8017,\hc31f,\ha24f,\hcb1f,\h8097,\hc71f,\hb12f,\hcf1f,\h9077,
    \hc09f,\hb52f,\hc89f,\h9177,\hc49f,\hcc9f,\hc29f,\hb32f,\hca9f,\hc69f,
    \hce9f,\ha14f,\hc19f,\hc99f,\hc59f,\hcd9f,\hc39f,\hcb9f,\hc79f,\hcf9f,
    \hc05f,\hc85f,\hc45f,\hcc5f,\hc25f,\hca5f,\hc65f,\hce5f,\hc15f,\hc95f,
    \hc55f,\hcd5f,\hc35f,\hcb5f,\hc75f,\hcf5f,\hc0df,\hc8df,\hc4df,\hccdf,
    \hc2df,\hcadf,\hc6df,\hcedf,\hc1df,\hc9df,\hc5df,\hcddf,\hc3df,\hcbdf,
    \hc7df,\hcfdf,\hc03f,\hc83f,\hc43f,\hcc3f,\hc23f,\hca3f,\hc63f,\hce3f,
    \hc13f,\hc93f,\hc53f,\hcd3f,\hc33f,\hcb3f,\hc73f,\hcf3f,\hc0bf,\hc8bf,
    \hc4bf,\hccbf,\hc2bf,\hcabf,\hc6bf,\hcebf,\hc1bf,\hc9bf,\hc5bf,\hcdbf,
    \hc3bf,\hcbbf,\hc7bf,\hcfbf,\hc07f,\hc87f,\hc47f,\hcc7f,\hc27f,\hca7f,
    \hc67f,\hce7f,\hc17f,\hc97f,\hc57f,\hcd7f,\hc37f,\hcb7f,\hc77f,\hcf7f,
    \hc0ff,\hc8ff,\hc4ff,\hccff,\hc2ff,\hcaff,\hc6ff,\hceff,\hc1ff,\hc9ff,
    \hc5ff,\hcdff,\hc3ff,\hcbff,\hc7ff,\hcfff>>
encoding_table_14 ==
  <<\h9017,\h4006,\h7033,\h3002,\h9117,\h400e,\h7073,\h2000,\ha177,\h601d,
    \h803b,\h4001,\ha377,\h5005,\h80bb,\h4009,\hb0cf,\h700b,\h9097,\h5015,
    \hb4cf,\h704b,\h9197,\h500d,\hc4af,\h807b,\ha0f7,\h603d,\hccaf,\h80fb,
    \ha2f7,\h6003,\hc2af,\h8007,\ha1f7,\h6023,\hcaaf,\h8087,\ha3f7,\h6013,
    \hc6af,\h9057,\hb2cf,\h702b,\hceaf,\h9157,\hb6cf,\h706b,\hc1af,\ha00f,
    \hc9af,\h8047,\hc5af,\ha20f,\hcdaf,\h80c7,\hc3af,\hb1cf,\hcbaf,\ha10f,
    \hc7af,\hb5cf,\hcfaf,\h90d7,\hc06f,\h91d7,\hb3cf,\h701b,\hc86f,\h9037,
    \hb7cf,\h705b,\hc46f,\ha30f,\hcc6f,\h8027,\hc26f,\ha08f,\hca6f,\h80a7,
    \hc66f,\hb02f,\hce6f,\h9137,\hc16f,\hb42f,\hc96f,\h90b7,\hc56f,\hcd6f,
    \hc36f,\hb22f,\hcb6f,\hc76f,\hcf6f,\ha28f,\hc0ef,\hc8ef,\hc4ef,\ha18f,
    \hccef,\hc2ef,\hcaef,\ha38f,\hc6ef,\hceef,\hc1ef,\hc9ef,\hc5ef,\hcdef,
    \hc3ef,\hb62f,\hcbef,\hc7ef,\hcfef,\hc01f,\hc81f,\hc41f,\hcc1f,\hc21f,
    \hca1f,\hc61f,\hce1f,\hc11f,\hc91f,\hc51f,\hcd1f,\hc31f,\hcb1f,\ha04f,
    \hc71f,\h8067,\hcf1f,\ha24f,\hc09f,\h80e7,\hc89f,\hb12f,\hc49f,\h91b7,
    \hcc9f,\hb52f,\hc29f,\h9077,\hca9f,\hc69f,\hce9f,\ha14f,\hc19f,\hc99f,
    \hc59f,\ha34f,\hcd9f,\hc39f,\hcb9f,\hc79f,\hcf9f,\hc05f,\hc85f,\hb32f,
    \hc45f,\hcc5f,\hc25f,\hb72f,\hca5f,\hc65f,\hce5f,\hb0af,\hc15f,\hc95f,
    \hc55f,\hcd5f,\hc35f,\hcb5f,\hc75f,\hcf5f,\hc0df,\hc8df,\hc4df,\hccdf,
    \hc2df,\hcadf,\hc6df,\hcedf,\hc1df,\hc9df,\hc5df,\hcddf,\hc3df,\hcbdf,
    \hc7df,\hcfdf,\hc03f,\hc83f,\hc43f,\hcc3f,\hc23f,\hca3f,\hc63f,\hce3f,
    \hc13f,\hc93f,\hc53f,\hcd3f,\hc33f,\hcb3f,\hc73f,\hcf3f,\hc0bf,\hc8bf,
    \hc4bf,\hccbf,\hc2bf,\hcabf,\hc6bf,\hcebf,\hc1bf,\hc9bf,\hc5bf,\hcdbf,
    \hc3bf,\hcbbf,\hc7bf,\hcfbf,\hc07f,\hc87f,\hc47f,\hcc7f,\hc27f,\hca7f,
    \hc67f,\hce7f,\hc17f,\hc97f,\hc57f,\hcd7f,\hc37f,\hcb7f,\hc77f,\hcf7f,
    \hc0ff,\hc8ff,\hc4ff,\hccff,\hc2ff,\hcaff,\hc6ff,\hceff,\hc1ff,\hc9ff,
    \hc5ff,\hcdff,\hc3ff,\hcbff,\hc7ff,\hcfff>>
encoding_table_15 ==
  <<\h9017,\h4006,\h7033,\h3002,\h9117,\h400e,\h7073,\h2000,\ha0f7,\h601d,
    \h803b,\h4001,\ha2f7,\h5005,\h80bb,\h4009,\hb0cf,\h700b,\h9097,\h5015,
    \hb4cf,\h704b,\h9197,\h500d,\hc0af,\h807b,\hb2cf,\h603d,\hc8af,\h80fb,
    \ha1f7,\h6003,\hc4af,\h8007,\hb6cf,\h6023,\hccaf,\h8087,\ha3f7,\h6013,
    \hc2af,\h9057,\hcaaf,\h702b,\hc6af,\h9157,\hb1cf,\h706b,\hceaf,\ha00f,
    \hc1af,\h8047,\hc9af,\ha20f,\hc5af,\h80c7,\hcdaf,\hb5cf,\hc3af,\h90d7,
    \hcbaf,\hb3cf,\hc7af,\h91d7,\hcfaf,\h9037,\hc06f,\h701b,\hc86f,\h9137,
    \hb7cf,\h705b,\hc46f,\ha10f,\hcc6f,\h8027,\hc26f,\ha30f,\hca6f,\h80a7,
    \hc66f,\hb02f,\hce6f,\h90b7,\hc16f,\hb42f,\hc96f,\h91b7,\hc56f,\hcd6f,
    \hc36f,\ha08f,\hcb6f,\hc76f,\hcf6f,\ha28f,\hc0ef,\hc8ef,\hc4ef,\ha18f,
    \hccef,\hc2ef,\hcaef,\ha38f,\hc6ef,\hceef,\hc1ef,\hc9ef,\hc5ef,\hcdef,
    \hc3ef,\hb22f,\hcbef,\hc7ef,\hcfef,\hc01f,\hc81f,\hc41f,\hcc1f,\hc21f,
    \hca1f,\hc61f,\hce1f,\hc11f,\hc91f,\hc51f,\hcd1f,\hc31f,\hcb1f,\ha04f,
    \hc71f,\h8067,\hcf1f,\ha24f,\hc09f,\h80e7,\hc89f,\hb62f,\hc49f,\h9077,
    \hcc9f,\hb12f,\hc29f,\h9177,\hca9f,\hc69f,\hce9f,\ha14f,\hc19f,\hc99f,
    \hc59f,\ha34f,\hcd9f,\hc39f,\hcb9f,\hc79f,\hcf9f,\hc05f,\hc85f,\hb52f,
    \hc45f,\hcc5f,\hc25f,\hb32f,\hca5f,\hc65f,\hce5f,\hb72f,\hc15f,\hc95f,
    \hc55f,\hcd5f,\hc35f,\hcb5f,\hc75f,\hcf5f,\hc0df,\hc8df,\hc4df,\hccdf,
    \hc2df,\hcadf,\hc6df,\hcedf,\hc1df,\hc9df,\hc5df,\hcddf,\hc3df,\hcbdf,
    \hc7df,\hcfdf,\hc03f,\hc83f,\hc43f,\hcc3f,\hc23f,\hca3f,\hc63f,\hce3f,
    \hc13f,\hc93f,\hc53f,\hcd3f,\hc33f,\hcb3f,\hc73f,\hcf3f,\hc0bf,\hc8bf,
    \hc4bf,\hccbf,\hc2bf,\hcabf,\hc6bf,\hcebf,\hc1bf,\hc9bf,\hc5bf,\hcdbf,
    \hc3bf,\hcbbf,\hc7bf,\hcfbf,\hc07f,\hc87f,\hc47f,\hcc7f,\hc27f,\hca7f,
    \hc67f,\hce7f,\hc17f,\hc97f,\hc57f,\hcd7f,\hc37f,\hcb7f,\hc77f,\hcf7f,
    \hc0ff,\hc8ff,\hc4ff,\hccff,\hc2ff,\hcaff,\hc6ff,\hceff,\hc1ff,\hc9ff,
    \hc5ff,\hcdff,\hc3ff,\hcbff,\hc7ff,\hcfff>>
encoding_table_16 ==
  <<\h1000,\h2001,\h4003,\h500b,\h501b,\h6007,\h8057,\h9077,\h6027,\h80d7,
    \h9177,\ha1f7,\ha3f7,\hb08f,\hc58f,\hcd8f,\h7017,\h8037,\ha00f,\hb48f,
    \hb28f,\hc38f,\hcb8f,\hc78f,\hcf8f,\hc04f,\hc84f,\hc44f,\hcc4f,\hc24f,
    \hca4f,\hc64f,\h80b7,\ha20f,\hb68f,\hce4f,\hc14f,\hc94f,\hc54f,\hcd4f,
    \hc34f,\hcb4f,\hc74f,\hcf4f,\hc0cf,\hc8cf,\hc4cf,\hcccf,\hc2cf,\hcacf,
    \hc6cf,\hcecf,\hc1cf,\hc9cf,\hc5cf,\hcdcf,\hc3cf,\hcbcf,\hc7cf,\hcfcf,
    \hc02f,\hc82f,\hc42f,\hcc2f,\h90f7,\ha10f,\hc22f,\hca2f,\hc62f,\hce2f,
    \hc12f,\hc92f,\hc52f,\hcd2f,\hc32f,\hcb2f,\hc72f,\hcf2f,\hc0af,\hc8af,
    \hc4af,\hccaf,\hc2af,\hcaaf,\hc6af,\hceaf,\hc1af,\hc9af,\hc5af,\hcdaf,
    \hc3af,\hcbaf,\hc7af,\hcfaf,\hc06f,\hc86f,\hc46f,\hcc6f,\hc26f,\hca6f,
    \hc66f,\hce6f,\hc16f,\hc96f,\hc56f,\hcd6f,\hc36f,\hcb6f,\hc76f,\hcf6f,
    \hc0ef,\hc8ef,\hc4ef,\hccef,\hc2ef,\hcaef,\hc6ef,\hceef,\hc1ef,\hc9ef,
    \hc5ef,\hcdef,\hc3ef,\hcbef,\hc7ef,\hcfef,\hc01f,\hc81f,\ha30f,\hb18f,
    \hc41f,\hcc1f,\hc21f,\hca1f,\hc61f,\hce1f,\hc11f,\hc91f,\hc51f,\hcd1f,
    \hc31f,\hcb1f,\hc71f,\hcf1f,\hc09f,\hc89f,\hc49f,\hcc9f,\hc29f,\hca9f,
    \hc69f,\hce9f,\hc19f,\hc99f,\hc59f,\hcd9f,\hc39f,\hcb9f,\hc79f,\hcf9f,
    \hc05f,\hc85f,\hc45f,\hcc5f,\hc25f,\hca5f,\hc65f,\hce5f,\hc15f,\hc95f,
    \hc55f,\hcd5f,\hc35f,\hcb5f,\hc75f,\hcf5f,\hc0df,\hc8df,\hc4df,\hccdf,
    \hc2df,\hcadf,\hc6df,\hcedf,\hc1df,\hc9df,\hc5df,\hcddf,\hc3df,\hcbdf,
    \hc7df,\hcfdf,\hc03f,\hc83f,\hc43f,\hcc3f,\hc23f,\hca3f,\hc63f,\hce3f,
    \hc13f,\hc93f,\hc53f,\hcd3f,\hc33f,\hcb3f,\hc73f,\hcf3f,\hc0bf,\hc8bf,
    \hc4bf,\hccbf,\hc2bf,\hcabf,\hc6bf,\hcebf,\hc1bf,\hc9bf,\hc5bf,\hcdbf,
    \hc3bf,\hcbbf,\hc7bf,\hcfbf,\hc07f,\hc87f,\hc47f,\hcc7f,\hc27f,\hca7f,
    \hc67f,\hce7f,\hc17f,\hc97f,\hc57f,\hcd7f,\hc37f,\hcb7f,\hc77f,\hcf7f,
    \hc0ff,\hc8ff,\hc4ff,\hccff,\hc2ff,\hcaff,\hc6ff,\hceff,\hc1ff,\hc9ff,
    \hc5ff,\hcdff,\hc3ff,\hcbff,\hc7ff,\hcfff>>
encoding_table_17 ==
  <<\h2000,\h2002,\h3001,\h4005,\h400d,\h5003,\h600b,\h602b,\h5013,\h601b,
    \h7007,\h7047,\h8017,\h90b7,\ha1f7,\ha3f7,\h603b,\h7027,\h8097,\h8057,
    \h91b7,\ha00f,\hb18f,\hb58f,\ha20f,\hb38f,\hc54f,\hcd4f,\hc34f,\hcb4f,
    \hc74f,\hcf4f,\h7067,\h80d7,\h9077,\ha10f,\ha30f,\hb78f,\hc0cf,\hc8cf,
    \hb04f,\hc4cf,\hcccf,\hc2cf,\hcacf,\hc6cf,\hcecf,\hc1cf,\hc9cf,\hc5cf,
    \hcdcf,\hc3cf,\hcbcf,\hc7cf,\hcfcf,\hc02f,\hc82f,\hc42f,\hcc2f,\hc22f,
    \hca2f,\hc62f,\hce2f,\hc12f,\h8037,\h9177,\ha08f,\hb44f,\hb24f,\hc92f,
    \hc52f,\hcd2f,\hc32f,\hcb2f,\hc72f,\hcf2f,\hc0af,\hc8af,\hc4af,\hccaf,
    \hc2af,\hcaaf,\hc6af,\hceaf,\hc1af,\hc9af,\hc5af,\hcdaf,\hc3af,\hcbaf,
    \hc7af,\hcfaf,\hc06f,\hc86f,\hc46f,\hcc6f,\hc26f,\hca6f,\hc66f,\hce6f,
    \hc16f,\hc96f,\hc56f,\hcd6f,\hc36f,\hcb6f,\hc76f,\hcf6f,\hc0ef,\hc8ef,
    \hc4ef,\hccef,\hc2ef,\hcaef,\hc6ef,\hceef,\hc1ef,\hc9ef,\hc5ef,\hcdef,
    \hc3ef,\hcbef,\hc7ef,\hcfef,\hc01f,\hc81f,\hc41f,\hcc1f,\h90f7,\ha28f,
    \hb64f,\hb14f,\hc21f,\hca1f,\hc61f,\hce1f,\hc11f,\hc91f,\hc51f,\hcd1f,
    \hc31f,\hcb1f,\hc71f,\hcf1f,\hc09f,\hc89f,\hc49f,\hcc9f,\hc29f,\hca9f,
    \hc69f,\hce9f,\hc19f,\hc99f,\hc59f,\hcd9f,\hc39f,\hcb9f,\hc79f,\hcf9f,
    \hc05f,\hc85f,\hc45f,\hcc5f,\hc25f,\hca5f,\hc65f,\hce5f,\hc15f,\hc95f,
    \hc55f,\hcd5f,\hc35f,\hcb5f,\hc75f,\hcf5f,\hc0df,\hc8df,\hc4df,\hccdf,
    \hc2df,\hcadf,\hc6df,\hcedf,\hc1df,\hc9df,\hc5df,\hcddf,\hc3df,\hcbdf,
    \hc7df,\hcfdf,\hc03f,\hc83f,\hc43f,\hcc3f,\hc23f,\hca3f,\hc63f,\hce3f,
    \hc13f,\hc93f,\hc53f,\hcd3f,\hc33f,\hcb3f,\hc73f,\hcf3f,\hc0bf,\hc8bf,
    \hc4bf,\hccbf,\hc2bf,\hcabf,\hc6bf,\hcebf,\hc1bf,\hc9bf,\hc5bf,\hcdbf,
    \hc3bf,\hcbbf,\hc7bf,\hcfbf,\hc07f,\hc87f,\hc47f,\hcc7f,\hc27f,\hca7f,
    \hc67f,\hce7f,\hc17f,\hc97f,\hc57f,\hcd7f,\hc37f,\hcb7f,\hc77f,\hcf7f,
    \hc0ff,\hc8ff,\hc4ff,\hccff,\hc2ff,\hcaff,\hc6ff,\hceff,\hc1ff,\hc9ff,
    \hc5ff,\hcdff,\hc3ff,\hcbff,\hc7ff,\hcfff>>
encoding_table_18 ==
  <<\h2000,\h2002,\h4005,\h3001,\h5003,\h400d,\h600b,\h602b,\h601b,\h5013,
    \h703b,\h707b,\h8067,\h80e7,\h90d7,\h91d7,\h7007,\h7047,\h8017,\h8097,
    \h9037,\h9137,\ha1f7,\ha3f7,\ha00f,\ha20f,\hb38f,\hb78f,\hc0cf,\hc8cf,
    \hc4cf,\hcccf,\h8057,\h7027,\h90b7,\h91b7,\ha10f,\ha30f,\hb04f,\hb44f,
    \hb24f,\hb64f,\hc2cf,\hcacf,\hc6cf,\hcecf,\hc1cf,\hc9cf,\hc5cf,\hcdcf,
    \hc3cf,\hcbcf,\hc7cf,\hcfcf,\hc02f,\hc82f,\hc42f,\hcc2f,\hc22f,\hca2f,
    \hc62f,\hce2f,\hc12f,\hc92f,\h9077,\h9177,\ha08f,\ha28f,\hb14f,\hb54f,
    \hc52f,\hcd2f,\hc32f,\hcb2f,\hc72f,\hcf2f,\hc0af,\hc8af,\hc4af,\hccaf,
    \hc2af,\hcaaf,\hc6af,\hceaf,\hc1af,\hc9af,\hc5af,\hcdaf,\hc3af,\hcbaf,
    \hc7af,\hcfaf,\hc06f,\hc86f,\hc46f,\hcc6f,\hc26f,\hca6f,\hc66f,\hce6f,
    \hc16f,\hc96f,\hc56f,\hcd6f,\hc36f,\hcb6f,\hc76f,\hcf6f,\hc0ef,\hc8ef,
    \hc4ef,\hccef,\hc2ef,\hcaef,\hc6ef,\hceef,\hc1ef,\hc9ef,\hc5ef,\hcdef,
    \hc3ef,\hcbef,\hc7ef,\hcfef,\hc01f,\hc81f,\hc41f,\hcc1f,\ha18f,\h90f7,
    \hb34f,\hb74f,\hc21f,\hca1f,\hc61f,\hce1f,\hc11f,\hc91f,\hc51f,\hcd1f,
    \hc31f,\hcb1f,\hc71f,\hcf1f,\hc09f,\hc89f,\hc49f,\hcc9f,\hc29f,\hca9f,
    \hc69f,\hce9f,\hc19f,\hc99f,\hc59f,\hcd9f,\hc39f,\hcb9f,\hc79f,\hcf9f,
    \hc05f,\hc85f,\hc45f,\hcc5f,\hc25f,\hca5f,\hc65f,\hce5f,\hc15f,\hc95f,
    \hc55f,\hcd5f,\hc35f,\hcb5f,\hc75f,\hcf5f,\hc0df,\hc8df,\hc4df,\hccdf,
    \hc2df,\hcadf,\hc6df,\hcedf,\hc1df,\hc9df,\hc5df,\hcddf,\hc3df,\hcbdf,
    \hc7df,\hcfdf,\hc03f,\hc83f,\hc43f,\hcc3f,\hc23f,\hca3f,\hc63f,\hce3f,
    \hc13f,\hc93f,\hc53f,\hcd3f,\hc33f,\hcb3f,\hc73f,\hcf3f,\hc0bf,\hc8bf,
    \hc4bf,\hccbf,\hc2bf,\hcabf,\hc6bf,\hcebf,\hc1bf,\hc9bf,\hc5bf,\hcdbf,
    \hc3bf,\hcbbf,\hc7bf,\hcfbf,\hc07f,\hc87f,\hc47f,\hcc7f,\hc27f,\hca7f,
    \hc67f,\hce7f,\hc17f,\hc97f,\hc57f,\hcd7f,\hc37f,\hcb7f,\hc77f,\hcf7f,
    \hc0ff,\hc8ff,\hc4ff,\hccff,\hc2ff,\hcaff,\hc6ff,\hceff,\hc1ff,\hc9ff,
    \hc5ff,\hcdff,\hc3ff,\hcbff,\hc7ff,\hcfff>>
encoding_table_19 ==
  <<\h3002,\h2000,\h4001,\h3006,\h500d,\h4009,\h501d,\h4005,\h6013,\h5003,
    \h6033,\h600b,\h8027,\h701b,\h80a7,\h705b,\h703b,\h602b,\h707b,\h7007,
    \h90d7,\h8067,\h91d7,\h80e7,\ha1f7,\h9037,\ha3f7,\ha00f,\hc5cf,\hb04f,
    \hcdcf,\hb44f,\h8017,\h7047,\h9137,\h8097,\ha20f,\h90b7,\ha10f,\h91b7,
    \hb24f,\ha30f,\hb64f,\hb14f,\hc3cf,\hcbcf,\hc7cf,\hcfcf,\hc02f,\hb54f,
    \hc82f,\hc42f,\hcc2f,\hc22f,\hca2f,\hc62f,\hce2f,\hc12f,\hc92f,\hc52f,
    \hcd2f,\hc32f,\hcb2f,\hc72f,\h9077,\h8057,\ha08f,\h9177,\hb34f,\ha28f,
    \hb74f,\hb0cf,\hcf2f,\hb4cf,\hc0af,\hc8af,\hc4af,\hccaf,\hc2af,\hcaaf,
    \hc6af,\hceaf,\hc1af,\hc9af,\hc5af,\hcdaf,\hc3af,\hcbaf,\hc7af,\hcfaf,
    \hc06f,\hc86f,\hc46f,\hcc6f,\hc26f,\hca6f,\hc66f,\hce6f,\hc16f,\hc96f,
    \hc56f,\hcd6f,\hc36f,\hcb6f,\hc76f,\hcf6f,\hc0ef,\hc8ef,\hc4ef,\hccef,
    \hc2ef,\hcaef,\hc6ef,\hceef,\hc1ef,\hc9ef,\hc5ef,\hcdef,\hc3ef,\hcbef,
    \hc7ef,\hcfef,\hc01f,\hc81f,\hc41f,\hcc1f,\hc21f,\hca1f,\ha18f,\h90f7,
    \hb2cf,\ha38f,\hc61f,\hb6cf,\hce1f,\hb1cf,\hc11f,\hc91f,\hc51f,\hcd1f,
    \hc31f,\hcb1f,\hc71f,\hcf1f,\hc09f,\hc89f,\hc49f,\hcc9f,\hc29f,\hca9f,
    \hc69f,\hce9f,\hc19f,\hc99f,\hc59f,\hcd9f,\hc39f,\hcb9f,\hc79f,\hcf9f,
    \hc05f,\hc85f,\hc45f,\hcc5f,\hc25f,\hca5f,\hc65f,\hce5f,\hc15f,\hc95f,
    \hc55f,\hcd5f,\hc35f,\hcb5f,\hc75f,\hcf5f,\hc0df,\hc8df,\hc4df,\hccdf,
    \hc2df,\hcadf,\hc6df,\hcedf,\hc1df,\hc9df,\hc5df,\hcddf,\hc3df,\hcbdf,
    \hc7df,\hcfdf,\hc03f,\hc83f,\hc43f,\hcc3f,\hc23f,\hca3f,\hc63f,\hce3f,
    \hc13f,\hc93f,\hc53f,\hcd3f,\hc33f,\hcb3f,\hc73f,\hcf3f,\hc0bf,\hc8bf,
    \hc4bf,\hccbf,\hc2bf,\hcabf,\hc6bf,\hcebf,\hc1bf,\hc9bf,\hc5bf,\hcdbf,
    \hc3bf,\hcbbf,\hc7bf,\hcfbf,\hc07f,\hc87f,\hc47f,\hcc7f,\hc27f,\hca7f,
    \hc67f,\hce7f,\hc17f,\hc97f,\hc57f,\hcd7f,\hc37f,\hcb7f,\hc77f,\hcf7f,
    \hc0ff,\hc8ff,\hc4ff,\hccff,\hc2ff,\hcaff,\hc6ff,\hceff,\hc1ff,\hc9ff,
    \hc5ff,\hcdff,\hc3ff,\hcbff,\hc7ff,\hcfff>>
encoding_table_20 ==
  <<\h4006,\h2000,\h400e,\h3002,\h5005,\h4001,\h5015,\h4009,\h6003,\h500d,
    \h6023,\h501d,\h8047,\h6013,\h80c7,\h6033,\h701b,\h600b,\h8027,\h602b,
    \h90d7,\h705b,\h91d7,\h703b,\ha1f7,\h80a7,\ha3f7,\h8067,\hb24f,\ha00f,
    \hb64f,\ha20f,\h9037,\h707b,\h9137,\h7007,\ha10f,\h80e7,\ha30f,\h8017,
    \hb14f,\h90b7,\hb54f,\ha08f,\hc02f,\hb34f,\hc82f,\hb74f,\hc42f,\hb0cf,
    \hcc2f,\hb4cf,\hc22f,\hca2f,\hc62f,\hce2f,\hc12f,\hc92f,\hc52f,\hcd2f,
    \hc32f,\hcb2f,\hc72f,\hcf2f,\ha28f,\h8097,\ha18f,\h8057,\hb2cf,\h91b7,
    \hb6cf,\h9077,\hc0af,\hb1cf,\hc8af,\hb5cf,\hc4af,\hccaf,\hc2af,\hcaaf,
    \hc6af,\hceaf,\hc1af,\hc9af,\hc5af,\hcdaf,\hc3af,\hcbaf,\hc7af,\hcfaf,
    \hc06f,\hc86f,\hc46f,\hcc6f,\hc26f,\hca6f,\hc66f,\hce6f,\hc16f,\hc96f,
    \hc56f,\hcd6f,\hc36f,\hcb6f,\hc76f,\hcf6f,\hc0ef,\hc8ef,\hc4ef,\hccef,
    \hc2ef,\hcaef,\hc6ef,\hceef,\hc1ef,\hc9ef,\hc5ef,\hcdef,\hc3ef,\hcbef,
    \hc7ef,\hcfef,\hc01f,\hc81f,\hc41f,\hcc1f,\hc21f,\hca1f,\hb3cf,\h9177,
    \hb7cf,\h90f7,\hc61f,\ha38f,\hce1f,\ha04f,\hc11f,\hc91f,\hc51f,\hcd1f,
    \hc31f,\hcb1f,\hc71f,\hcf1f,\hc09f,\hc89f,\hc49f,\hcc9f,\hc29f,\hca9f,
    \hc69f,\hce9f,\hc19f,\hc99f,\hc59f,\hcd9f,\hc39f,\hcb9f,\hc79f,\hcf9f,
    \hc05f,\hc85f,\hc45f,\hcc5f,\hc25f,\hca5f,\hc65f,\hce5f,\hc15f,\hc95f,
    \hc55f,\hcd5f,\hc35f,\hcb5f,\hc75f,\hcf5f,\hc0df,\hc8df,\hc4df,\hccdf,
    \hc2df,\hcadf,\hc6df,\hcedf,\hc1df,\hc9df,\hc5df,\hcddf,\hc3df,\hcbdf,
    \hc7df,\hcfdf,\hc03f,\hc83f,\hc43f,\hcc3f,\hc23f,\hca3f,\hc63f,\hce3f,
    \hc13f,\hc93f,\hc53f,\hcd3f,\hc33f,\hcb3f,\hc73f,\hcf3f,\hc0bf,\hc8bf,
    \hc4bf,\hccbf,\hc2bf,\hcabf,\hc6bf,\hcebf,\hc1bf,\hc9bf,\hc5bf,\hcdbf,
    \hc3bf,\hcbbf,\hc7bf,\hcfbf,\hc07f,\hc87f,\hc47f,\hcc7f,\hc27f,\hca7f,
    \hc67f,\hce7f,\hc17f,\hc97f,\hc57f,\hcd7f,\hc37f,\hcb7f,\hc77f,\hcf7f,
    \hc0ff,\hc8ff,\hc4ff,\hccff,\hc2ff,\hcaff,\hc6ff,\hceff,\hc1ff,\hc9ff,
    \hc5ff,\hcdff,\hc3ff,\hcbff,\hc7ff,\hcfff>>
encoding_table_21 ==
  <<\h5009,\h3002,\h5019,\h2000,\h6003,\h4001,\h5005,\h3006,\h702b,\h5015,
    \h706b,\h500d,\h8007,\h6023,\h8087,\h501d,\h8047,\h6013,\h80c7,\h6033,
    \h9097,\h701b,\h9197,\h600b,\ha0f7,\h8027,\ha2f7,\h80a7,\hb14f,\h9057,
    \hb54f,\h9157,\h90d7,\h705b,\h91d7,\h703b,\ha1f7,\h8067,\ha3f7,\h707b,
    \hb34f,\h9037,\hb74f,\h9137,\hc12f,\ha00f,\hc92f,\ha20f,\hc52f,\ha10f,
    \hcd2f,\ha30f,\hc32f,\hb0cf,\hcb2f,\hb4cf,\hc72f,\hcf2f,\hc0af,\hc8af,
    \hc4af,\hccaf,\hc2af,\hcaaf,\ha08f,\h80e7,\ha28f,\h8017,\hb2cf,\h90b7,
    \hb6cf,\h91b7,\hc6af,\ha18f,\hceaf,\ha38f,\hc1af,\hb1cf,\hc9af,\hb5cf,
    \hc5af,\hb3cf,\hcdaf,\hb7cf,\hc3af,\hcbaf,\hc7af,\hcfaf,\hc06f,\hc86f,
    \hc46f,\hcc6f,\hc26f,\hca6f,\hc66f,\hce6f,\hc16f,\hc96f,\hc56f,\hcd6f,
    \hc36f,\hcb6f,\hc76f,\hcf6f,\hc0ef,\hc8ef,\hc4ef,\hccef,\hc2ef,\hcaef,
    \hc6ef,\hceef,\hc1ef,\hc9ef,\hc5ef,\hcdef,\hc3ef,\hcbef,\hc7ef,\hcfef,
    \hc01f,\hc81f,\hc41f,\hcc1f,\hc21f,\hca1f,\hc61f,\hce1f,\hb02f,\h9077,
    \hb42f,\h9177,\hc11f,\ha04f,\hc91f,\ha24f,\hc51f,\hb22f,\hcd1f,\hb62f,
    \hc31f,\hcb1f,\hc71f,\hcf1f,\hc09f,\hc89f,\hc49f,\hcc9f,\hc29f,\hca9f,
    \hc69f,\hce9f,\hc19f,\hc99f,\hc59f,\hcd9f,\hc39f,\hcb9f,\hc79f,\hcf9f,
    \hc05f,\hc85f,\hc45f,\hcc5f,\hc25f,\hca5f,\hc65f,\hce5f,\hc15f,\hc95f,
    \hc55f,\hcd5f,\hc35f,\hcb5f,\hc75f,\hcf5f,\hc0df,\hc8df,\hc4df,\hccdf,
    \hc2df,\hcadf,\hc6df,\hcedf,\hc1df,\hc9df,\hc5df,\hcddf,\hc3df,\hcbdf,
    \hc7df,\hcfdf,\hc03f,\hc83f,\hc43f,\hcc3f,\hc23f,\hca3f,\hc63f,\hce3f,
    \hc13f,\hc93f,\hc53f,\hcd3f,\hc33f,\hcb3f,\hc73f,\hcf3f,\hc0bf,\hc8bf,
    \hc4bf,\hccbf,\hc2bf,\hcabf,\hc6bf,\hcebf,\hc1bf,\hc9bf,\hc5bf,\hcdbf,
    \hc3bf,\hcbbf,\hc7bf,\hcfbf,\hc07f,\hc87f,\hc47f,\hcc7f,\hc27f,\hca7f,
    \hc67f,\hce7f,\hc17f,\hc97f,\hc57f,\hcd7f,\hc37f,\hcb7f,\hc77f,\hcf7f,
    \hc0ff,\hc8ff,\hc4ff,\hccff,\hc2ff,\hcaff,\hc6ff,\hceff,\hc1ff,\hc9ff,
    \hc5ff,\hcdff,\hc3ff,\hcbff,\hc7ff,\hcfff>>

encoding_tables_for_high_entropy_byte ==
  <<encoding_table_0, encoding_table_1, encoding_table_2, encoding_table_3,
     encoding_table_4, encoding_table_5, encoding_table_6, encoding_table_7,
     encoding_table_8, encoding_table_9, encoding_table_10, encoding_table_11,
     encoding_table_12, encoding_table_13, encoding_table_14,
     encoding_table_15, encoding_table_16, encoding_table_17,
     encoding_table_18, encoding_table_19, encoding_table_20,
     encoding_table_21>>

length_limited_unary_encoding_table65 ==
  <<\h1000,\h2001,\h3003,\h4007,\h500f,\h701f,\h805f,\h80df,\ha03f,\ha23f,
    \hb13f,\hc53f,\hcd3f,\hc33f,\hcb3f,\hc73f,\hcf3f,\hc0bf,\hc8bf,\hc4bf,
    \hccbf,\hc2bf,\hcabf,\hc6bf,\hcebf,\hc1bf,\hc9bf,\hc5bf,\hcdbf,\hc3bf,
    \hcbbf,\hc7bf,\hcfbf,\hc07f,\hc87f,\hc47f,\hcc7f,\hc27f,\hca7f,\hc67f,
    \hce7f,\hc17f,\hc97f,\hc57f,\hcd7f,\hc37f,\hcb7f,\hc77f,\hcf7f,\hc0ff,
    \hc8ff,\hc4ff,\hccff,\hc2ff,\hcaff,\hc6ff,\hceff,\hc1ff,\hc9ff,\hc5ff,
    \hcdff,\hc3ff,\hcbff,\hc7ff,\hcfff>>

column_permutations_for_encoding ==
  <<<<0,1,2,3,5,6,7,8,9,10,11,12,13,15,16,17,18,19,20,21,22,23,24,25,26,27,28,
      29,30,31,32,33,35,36,37,38,39,40,41,42,43,44,45,46,47,48,49,50,51,
      52,53,54,55,34,14,4>>,
    <<0,1,2,3,5,6,7,8,9,10,11,12,13,14,16,17,18,19,20,21,22,23,24,25,26,
      27,28,29,30,31,32,33,34,36,37,38,39,40,41,42,43,44,45,46,47,48,49,
      50,51,52,53,54,55,35,15,4>>,
    <<0,1,2,3,4,6,7,8,9,10,11,12,13,14,15,17,18,19,20,21,22,23,24,25,26,
      27,28,29,30,31,32,33,34,35,36,38,39,40,41,42,43,44,45,46,47,48,49,
      50,51,52,53,54,55,37,16,5>>,
    <<0,1,2,3,4,6,7,8,9,10,11,12,13,14,15,16,18,19,20,21,22,23,24,25,26,
      27,28,29,30,31,32,33,34,35,36,37,38,40,41,42,43,44,45,46,47,48,49,
      50,51,52,53,54,55,39,17,5>>,
    <<0,1,2,3,4,5,7,8,9,10,11,12,13,14,15,16,17,19,20,21,22,23,24,25,26,
      27,28,29,30,31,32,33,34,35,36,37,38,39,40,42,43,44,45,46,47,48,49,
      50,51,52,53,54,55,41,18,6>>,
    <<0,1,2,3,4,5,7,8,9,10,11,12,13,14,15,16,17,18,20,21,22,23,24,25,26,
      27,28,29,30,31,32,33,34,35,36,37,38,39,40,41,42,44,45,46,47,48,49,
      50,51,52,53,54,55,43,19,6>>,
    <<1,2,3,4,5,6,8,9,10,11,12,13,14,15,16,17,18,19,21,22,23,24,25,26,27,
      28,29,30,31,32,33,34,35,36,37,38,39,40,41,42,43,44,46,47,48,49,50,
      51,52,53,54,55,45,20,7,0>>,
    <<1,2,3,4,5,6,8,9,10,11,12,13,14,15,16,17,18,19,20,22,23,24,25,26,27,
      28,29,30,31,32,33,34,35,36,37,38,39,40,41,42,43,44,45,46,48,49,50,
      51,52,53,54,55,47,21,7,0>>,
    <<1,2,3,4,5,6,7,9,10,11,12,13,14,15,16,17,18,19,20,21,23,24,25,26,27,
      28,29,30,31,32,33,34,35,36,37,38,39,40,41,42,43,44,45,46,47,48,49,
      51,52,53,54,55,50,22,8,0>>,
    <<0,2,3,4,5,6,7,8,10,11,12,13,14,15,16,17,18,19,20,21,22,24,25,26,27,
      28,29,30,31,32,33,34,35,36,37,38,39,40,41,42,43,44,45,46,47,48,49,
      50,51,53,54,55,52,23,9,1>>,
    <<0,2,3,4,5,6,7,8,10,11,12,13,14,15,16,17,18,19,20,21,22,23,24,26,27,
      28,29,30,31,32,33,34,35,36,37,38,39,40,41,42,43,44,45,46,47,48,49,
      50,51,52,53,54,55,25,9,1>>,
    <<0,2,3,4,5,6,7,8,9,11,12,13,14,15,16,17,18,19,20,21,22,23,24,25,27,
      28,29,30,31,32,33,34,35,36,37,38,39,40,41,42,43,44,45,46,47,48,49,
      50,51,52,53,54,55,26,10,1>>,
    <<0,1,3,4,5,6,7,8,9,10,12,13,14,15,16,17,18,19,20,21,22,23,24,25,26,
      28,29,30,31,32,33,34,35,36,37,38,39,40,41,42,43,44,45,46,47,48,49,
      50,51,52,53,54,55,27,11,2>>,
    <<0,1,3,4,5,6,7,8,9,10,12,13,14,15,16,17,18,19,20,21,22,23,24,25,26,
      27,28,30,31,32,33,34,35,36,37,38,39,40,41,42,43,44,45,46,47,48,49,
      50,51,52,53,54,55,29,11,2>>,
    <<0,1,2,4,5,6,7,8,9,10,11,13,14,15,16,17,18,19,20,21,22,23,24,25,26,
      27,28,29,31,32,33,34,35,36,37,38,39,40,41,42,43,44,45,46,47,48,49,
      50,51,52,53,54,55,30,12,3>>,
    <<0,1,2,4,5,6,7,8,9,10,11,12,14,15,16,17,18,19,20,21,22,23,24,25,26,
      27,28,29,30,31,33,34,35,36,37,38,39,40,41,42,43,44,45,46,47,48,49,
      50,51,52,53,54,55,32,13,3>>>>

-----------------------------------------------------------------------------

WORD_BITS == 32
BUFFER_BITS == 64
MAX_CODE_BITS == 12                  \* the longest codeword of any table

BitsOf(value, length) == [i \in 1 .. length |-> (value \div 2^(i - 1)) % 2]
ValueOf(bits) == SumFunction([i \in DOMAIN bits |-> bits[i] * 2^(i - 1)])
Zeros(n) == [i \in 1 .. n |-> 0]

(***************************************************************************)
(* Decoding tables.  decoding_table[p] is for every 12-bit p that extends  *)
(* the codeword of a byte; where several do, the last byte has overwritten *)
(* the others.                                                             *)
(***************************************************************************)
CodeLength(entry) == entry \div 4096
Codewords(encoding_table) ==
  [v \in 0 .. Len(encoding_table) - 1 |->
     BitsOf(encoding_table[v + 1] % 4096, CodeLength(encoding_table[v + 1]))]

make_decoding_table(codewords) ==
  [w \in Range(codewords) |-> Max({v \in DOMAIN codewords : codewords[v] = w})]

(* the byte whose codeword starts the 12 bits, and the codeword's length   *)
Lookup(decoding_table, peek12) ==
  LET lengths == {n \in 1 .. MAX_CODE_BITS : SubSeq(peek12, 1, n) \in DOMAIN decoding_table}
      entry(n) == decoding_table[SubSeq(peek12, 1, n)]
      last == CHOOSE n \in lengths : \A m \in lengths : entry(m) <= entry(n)
  IN [byte |-> entry(last), length |-> last]

(* validate_decoding_table(): every 12-bit value starts with a codeword.   *)
(* In the tree of the codewords, a node that is not behind a codeword must *)
(* have both children.                                                     *)
validate_decoding_table(decoding_table) ==
  LET codewords == DOMAIN decoding_table
      nodes == UNION {{SubSeq(w, 1, n) : n \in 0 .. Len(w)} : w \in codewords}
  IN \A p \in nodes :
       \/ \E n \in 0 .. Len(p) : SubSeq(p, 1, n) \in codewords
       \/ Append(p, 0) \in nodes /\ Append(p, 1) \in nodes

UnaryCodewords == Codewords(length_limited_unary_encoding_table65)
length_limited_unary_decoding_table65 == make_decoding_table(UnaryCodewords)

NUM_TABLES == 22
ByteCodewords ==
  [i \in 1 .. NUM_TABLES |-> Codewords(encoding_tables_for_high_entropy_byte[i])]
decoding_tables_for_high_entropy_byte ==
  [i \in 1 .. NUM_TABLES |-> make_decoding_table(ByteCodewords[i])]

(* the tables that pass: those of the phases, and 65 for the unary code    *)
Validated ==
  {i - 1 : i \in {j \in 1 .. NUM_TABLES :
                    validate_decoding_table(decoding_tables_for_high_entropy_byte[j])}}
  \cup {n \in {65} : validate_decoding_table(length_limited_unary_decoding_table65)}

make_inverse_permutation(permu) ==
  [c \in 1 .. Len(permu) |-> (CHOOSE i \in 1 .. Len(permu) : permu[i] = c - 1) - 1]

column_permutations_for_decoding ==
  [i \in DOMAIN column_permutations_for_encoding |->
     make_inverse_permutation(column_permutations_for_encoding[i])]

-----------------------------------------------------------------------------
(* The writer.                                                             *)

NewWriter == [buf |-> << >>, words |-> << >>, ok |-> TRUE]

maybe_flush_bitbuf(w) ==
  IF Len(w.buf) >= WORD_BITS
  THEN [w EXCEPT !.words = Append(w.words, SubSeq(w.buf, 1, WORD_BITS)),
                 !.buf = SubSeq(w.buf, WORD_BITS + 1, Len(w.buf))]
  ELSE w

Put(w, bits) ==
  maybe_flush_bitbuf([w EXCEPT !.buf = w.buf \o bits,
                               !.ok = w.ok /\ Len(w.buf) + Len(bits) <= BUFFER_BITS])

RECURSIVE write_unary(_, _)
write_unary(w, value) ==
  IF value >= 16 THEN write_unary(Put(w, Zeros(16)), value - 16)
  ELSE Put([w EXCEPT !.ok = w.ok /\ Len(w.buf) < WORD_BITS], Append(Zeros(value), 1))

(* the padding, and the last word, filled up with zeros                    *)
LastWord(w) ==
  LET rest == Len(w.buf)
  IN [words |-> IF rest = 0 THEN w.words
                ELSE Append(w.words, w.buf \o Zeros(WORD_BITS - rest)),
      ok |-> w.ok /\ rest < WORD_BITS]
Finished(w, padding) == LastWord(Put(w, Zeros(padding)))

(* The 12-bit peek of the reader must not reach behind the last word.      *)
BYTE_PADDING == 11
PairPadding_one_short(num_base_bits) == IF num_base_bits > 9 THEN 0 ELSE 9 - num_base_bits
PairPadding(num_base_bits) == IF num_base_bits > 10 THEN 0 ELSE 10 - num_base_bits

low_level_compress_bytes(bytes, phase) ==
  LET step(w, byte) == IF w.ok THEN Put(w, ByteCodewords[phase + 1][byte]) ELSE w
  IN Finished(FoldLeft(step, NewWriter, bytes), BYTE_PADDING)

(***************************************************************************)
(* low_level_compress_pairs() predicts the next pair to be in the same row *)
(* and right of the last one; it throws when the pairs are not ascending.  *)
(***************************************************************************)
PredictedRow(pairs, i) == IF i > 1 THEN pairs[i - 1][1] ELSE 0
PredictedCol(pairs, i) == IF PredictedRow(pairs, i) = pairs[i][1] /\ i > 1 THEN pairs[i - 1][2] + 1 ELSE 0

PutPair(w, x_delta, y_delta, num_base_bits) ==
  Put(write_unary(Put(w, UnaryCodewords[x_delta]), y_delta \div 2^num_base_bits),
      BitsOf(y_delta % 2^num_base_bits, num_base_bits))

low_level_compress_pairs(pairs, num_base_bits) ==
  LET step(w, i) ==
        IF ~w.ok THEN w
        ELSE IF PredictedRow(pairs, i) <= pairs[i][1] /\ PredictedCol(pairs, i) <= pairs[i][2]
        THEN PutPair(w, pairs[i][2] - PredictedCol(pairs, i), pairs[i][1] - PredictedRow(pairs, i),
                     num_base_bits)
        ELSE [w EXCEPT !.ok = FALSE]
  IN Finished(FoldLeft(step, NewWriter, [i \in DOMAIN pairs |-> i]), PairPadding(num_base_bits))

-----------------------------------------------------------------------------
(* The reader.                                                             *)

NewReader(words) == [buf |-> << >>, words |-> words, index |-> 0, ok |-> TRUE]

(* behind the last word the bits are arbitrary; ones are taken here        *)
maybe_fill_bitbuf(r, minbits) ==
  IF Len(r.buf) >= minbits THEN r
  ELSE IF r.index < Len(r.words)
  THEN [r EXCEPT !.buf = r.buf \o r.words[r.index + 1], !.index = r.index + 1]
  ELSE [r EXCEPT !.buf = r.buf \o [i \in 1 .. WORD_BITS |-> 1], !.index = r.index + 1, !.ok = FALSE]

Skip(r, n) == [r EXCEPT !.buf = SubSeq(r.buf, n + 1, Len(r.buf))]

(* the reader with the byte that was read in front of it                   *)
ReadCode(reader, decoding_table) ==
  LET r     == maybe_fill_bitbuf(reader, MAX_CODE_BITS)
      found == Lookup(decoding_table, SubSeq(r.buf, 1, MAX_CODE_BITS))
  IN <<found.byte, Skip(r, found.length)>>

RECURSIVE read_unary(_, _)
read_unary(reader, subtotal) ==
  LET r == maybe_fill_bitbuf(reader, 8)
      trailing_zeros == Min({i \in 0 .. 8 : i = 8 \/ r.buf[i + 1] = 1})
  IN IF trailing_zeros < 8
     THEN <<subtotal + trailing_zeros, Skip(r, 1 + trailing_zeros)>>
     ELSE read_unary(Skip(r, 8), subtotal + 8)

ReadBits(reader, n) ==
  LET r == maybe_fill_bitbuf(reader, n)
  IN <<ValueOf(SubSeq(r.buf, 1, n)), Skip(r, n)>>

(* what was read when the loop is left                                     *)
ReadOf(st) == [read |-> st.read, ok |-> st.r.ok]

NextByte(st, code) == [r |-> code[2], read |-> Append(st.read, code[1])]

low_level_uncompress_bytes(num_bytes, phase, words) ==
  LET step(st, i) ==
        IF ~st.r.ok THEN st
        ELSE NextByte(st, ReadCode(st.r, decoding_tables_for_high_entropy_byte[phase + 1]))
  IN ReadOf(FoldLeft(step, [r |-> NewReader(words), read |-> << >>],
                     [i \in 1 .. num_bytes |-> i]))

NextPair(st, x_delta, y_delta, r) ==
  LET row == st.row + y_delta
      col == (IF y_delta > 0 THEN 0 ELSE st.col) + x_delta
  IN [r |-> r, row |-> row, col |-> col + 1, read |-> Append(st.read, <<row, col>>)]

(* x is the codeword of x_delta; the bits of y_delta follow it             *)
ReadDelta(st, x, num_base_bits) ==
  LET hi == read_unary(x[2], 0)
      lo == ReadBits(hi[2], num_base_bits)
  IN NextPair(st, x[1], hi[1] * 2^num_base_bits + lo[1], lo[2])

low_level_uncompress_pairs(num_pairs, num_base_bits, words) ==
  LET step(st, i) ==
        IF ~st.r.ok THEN st
        ELSE ReadDelta(st, ReadCode(st.r, length_limited_unary_decoding_table65), num_base_bits)
  IN ReadOf(FoldLeft(step, [r |-> NewReader(words), row |-> 0, col |-> 0, read |-> << >>],
                     [i \in 1 .. num_pairs |-> i]))

-----------------------------------------------------------------------------
(* The number of base bits of a Golomb code and the sizes of the buffers   *)
(* the words are written to.                                               *)

golomb_choose_number_of_base_bits(k, count) ==
  LET quotient == (k - count) \div count
  IN IF quotient = 0 THEN 0 ELSE CHOOSE b \in 0 .. 31 : 2^b <= quotient /\ quotient < 2^(b + 1)

BaseBits(lg_k, num_pairs) == golomb_choose_number_of_base_bits(2^lg_k + num_pairs, num_pairs)

divide_longs_rounding_up(x, y) == (x + y - 1) \div y

safe_length_for_compressed_pair_buf(k, num_pairs, num_base_bits) ==
  divide_longs_rounding_up(MAX_CODE_BITS * num_pairs
                           + num_pairs * (1 + num_base_bits) + k \div 2^num_base_bits
                           + PairPadding(num_base_bits), WORD_BITS)

safe_length_for_compressed_window_buf(k) ==
  divide_longs_rounding_up(MAX_CODE_BITS * k + BYTE_PADDING, WORD_BITS)

(* compress_surprising_values() and its inverse                            *)
Within(written, room) == [words |-> written.words, ok |-> written.ok /\ Len(written.words) <= room]

compress_surprising_values(pairs, lg_k) ==
  LET num_base_bits == BaseBits(lg_k, Len(pairs))
  IN Within(low_level_compress_pairs(pairs, num_base_bits),
            safe_length_for_compressed_pair_buf(2^lg_k, Len(pairs), num_base_bits))

uncompress_surprising_values(words, num_pairs, lg_k) ==
  low_level_uncompress_pairs(num_pairs, BaseBits(lg_k, num_pairs), words)

(* the bytes of a window                                                   *)
compress_sliding_window(bytes, phase) ==
  Within(low_level_compress_bytes(bytes, phase), safe_length_for_compressed_window_buf(Len(bytes)))

uncompress_sliding_window(words, num_bytes, phase) ==
  low_level_uncompress_bytes(num_bytes, phase, words)

(***************************************************************************)
(* The columns of a SLIDING sketch are rotated so that the window comes    *)
(* last, and then permuted.  permu is a permutation of the columns outside *)
(* the window (56 of 64 in the code) and inverse its inverse.              *)
(***************************************************************************)
Rotated(col, offset, permu, columns) == (col + Len(permu) - offset) % columns

SlidCol(col, offset, permu, columns) == permu[Rotated(col, offset, permu, columns) + 1]

UnslidCol_keeps_offset(col, offset, inverse, columns) ==
  (inverse[col + 1] + columns - Len(inverse)) % columns

UnslidCol(col, offset, inverse, columns) ==
  (inverse[col + 1] + offset + columns - Len(inverse)) % columns
=============================================================================
