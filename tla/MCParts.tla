-------------------------------- MODULE MCParts --------------------------------
(* RedFoxParts with the classes and key tables of the code, and few of all else. *)
EXTENDS RedFoxParts, KeyTables, ObjectClasses

MCSlots == {"handle", "memory", "view", "layout", "module", "staging",
            "staging_memory", "commands"}

MCClasses ==
  {Sampler, DescriptorPool, Framebuffer, RenderPass, Device, Instance, Buffer, Image,
   GraphicsPipeline, ComputePipeline}

\* Numbers of two base-3 digits: sizes, kinds and ids that need one digit and two,
\* ids at the ends of the range, and up to two bodies of up to four bytes.
Bodies == {<<>>, <<0>>, <<2>>, <<0, 1>>, <<1, 0, 2>>, <<2, 2, 2, 2>>}

Payloads == {<<>>} \cup {<<b>> : b \in Bodies} \cup {<<b, c>> : b, c \in Bodies}

MCMessages == [id : {0, 1, 2, 3}, app_id : {0, 2, 3, 8}, payload : Payloads]

\* The tables of the keys, and a map made without one.
MCLists == {<<>>, x11_key_map, cocoa_key_map, win32_key_map}

MCContents == {<<>>, <<"x">>, <<"x", "n">>}

===============================================================================
