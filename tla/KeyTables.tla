-------------------------------- MODULE KeyTables -------------------------------
(***************************************************************************)
(* The tables of RF::virtual_key_t per platform                            *)
(* (include/RF/interface/virtual_key.hpp): native key codes and the keys   *)
(* they stand for, in the order in which they are listed.  The codes of    *)
(* Cocoa are the names of Carbon without kVK_, which the source uses, too. *)
(***************************************************************************)
EXTENDS Integers, Sequences

x11_key_map ==
  <<<<38, "A">>, <<56, "B">>, <<54, "C">>, <<54, "C">>, <<40, "D">>, <<26, "E">>,
    <<41, "F">>, <<42, "G">>, <<43, "H">>, <<44, "J">>, <<45, "K">>, <<46, "L">>,
    <<58, "M">>, <<57, "N">>, <<32, "O">>, <<33, "P">>, <<24, "Q">>, <<27, "R">>,
    <<39, "S">>, <<28, "T">>, <<30, "U">>, <<55, "V">>, <<25, "W">>, <<53, "X">>,
    <<29, "Y">>, <<52, "Z">>, <<19, "Key0">>, <<10, "Key1">>, <<11, "Key2">>,
    <<12, "Key3">>, <<13, "Key4">>, <<14, "Key5">>, <<15, "Key6">>, <<16, "Key7">>,
    <<17, "Key8">>, <<18, "Key9">>, <<90, "Pad0">>, <<87, "Pad1">>, <<88, "Pad2">>,
    <<89, "Pad3">>, <<83, "Pad4">>, <<84, "Pad5">>, <<85, "Pad6">>, <<79, "Pad7">>,
    <<80, "Pad8">>, <<81, "Pad9">>, <<9, "Escape">>, <<36, "Return">>,
    <<104, "PadReturn">>, <<22, "Backspace">>, <<23, "Tab">>, <<65, "Space">>,
    <<50, "LShift">>, <<62, "RShift">>, <<37, "LControl">>, <<105, "RControl">>,
    <<133, "LSuper">>, <<134, "RSuper">>, <<64, "Alt">>, <<108, "AltGr">>,
    <<67, "F1">>, <<68, "F2">>, <<69, "F3">>, <<70, "F4">>, <<71, "F5">>,
    <<72, "F6">>, <<73, "F7">>, <<74, "F8">>, <<75, "F9">>, <<76, "F10">>,
    <<95, "F11">>, <<96, "F12">>, <<110, "Home">>, <<115, "End">>,
    <<118, "Insert">>, <<119, "Delete">>, <<112, "PageUp">>, <<117, "PageDown">>,
    <<111, "ArrowUp">>, <<116, "ArrowDown">>, <<113, "ArrowLeft">>,
    <<114, "ArrowRight">>>>

cocoa_key_map ==
  <<<<"ANSI_A", "A">>, <<"ANSI_B", "B">>, <<"ANSI_C", "C">>, <<"ANSI_D", "D">>,
    <<"ANSI_E", "E">>, <<"ANSI_F", "F">>, <<"ANSI_G", "G">>, <<"ANSI_H", "H">>,
    <<"ANSI_I", "I">>, <<"ANSI_J", "J">>, <<"ANSI_K", "K">>, <<"ANSI_L", "L">>,
    <<"ANSI_M", "M">>, <<"ANSI_N", "N">>, <<"ANSI_O", "O">>, <<"ANSI_P", "P">>,
    <<"ANSI_Q", "Q">>, <<"ANSI_R", "R">>, <<"ANSI_S", "S">>, <<"ANSI_T", "T">>,
    <<"ANSI_U", "U">>, <<"ANSI_V", "V">>, <<"ANSI_W", "W">>, <<"ANSI_X", "X">>,
    <<"ANSI_Y", "Y">>, <<"ANSI_Z", "Z">>, <<"ANSI_0", "Key0">>,
    <<"ANSI_1", "Key1">>, <<"ANSI_2", "Key2">>, <<"ANSI_3", "Key3">>,
    <<"ANSI_4", "Key4">>, <<"ANSI_5", "Key5">>, <<"ANSI_6", "Key6">>,
    <<"ANSI_7", "Key7">>, <<"ANSI_8", "Key8">>, <<"ANSI_9", "Key9">>,
    <<"ANSI_Keypad0", "Pad0">>, <<"ANSI_Keypad1", "Pad1">>,
    <<"ANSI_Keypad2", "Pad2">>, <<"ANSI_Keypad3", "Pad3">>,
    <<"ANSI_Keypad4", "Pad4">>, <<"ANSI_Keypad5", "Pad5">>,
    <<"ANSI_Keypad6", "Pad6">>, <<"ANSI_Keypad7", "Pad7">>,
    <<"ANSI_Keypad8", "Pad8">>, <<"ANSI_Keypad9", "Pad9">>, <<"Escape", "Escape">>,
    <<"Return", "Return">>, <<"ANSI_KeypadEnter", "PadReturn">>,
    <<"Delete", "Backspace">>, <<"Tab", "Tab">>, <<"Space", "Space">>,
    <<"Shift", "LShift">>, <<"RightShift", "LShift">>, <<"Control", "LControl">>,
    <<"RightControl", "RControl">>, <<"Command", "LSuper">>,
    <<"RightCommand", "RSuper">>, <<"Option", "Alt">>, <<"RightOption", "AltGr">>,
    <<"F1", "F1">>, <<"F2", "F2">>, <<"F3", "F3">>, <<"F4", "F4">>, <<"F5", "F5">>,
    <<"F6", "F6">>, <<"F7", "F7">>, <<"F8", "F8">>, <<"F9", "F9">>,
    <<"F10", "F10">>, <<"F11", "F11">>, <<"F12", "F12">>, <<"F13", "F13">>,
    <<"F14", "F14">>, <<"F15", "F15">>, <<"F16", "F16">>, <<"F17", "F17">>,
    <<"F18", "F18">>, <<"F19", "F19">>, <<"F20", "F20">>, <<"Home", "Home">>,
    <<"End", "End">>, <<"Help", "Insert">>, <<"ForwardDelete", "Delete">>,
    <<"PageUp", "PageUp">>, <<"PageDown", "PageDown">>, <<"UpArrow", "ArrowUp">>,
    <<"DownArrow", "ArrowDown">>, <<"LeftArrow", "ArrowLeft">>,
    <<"RightArrow", "ArrowRight">>>>

win32_key_map ==
  <<<<30, "A">>, <<48, "B">>, <<46, "C">>, <<32, "D">>, <<18, "E">>, <<33, "F">>,
    <<34, "G">>, <<35, "H">>, <<23, "I">>, <<36, "J">>, <<37, "K">>, <<38, "L">>,
    <<50, "M">>, <<49, "N">>, <<24, "O">>, <<25, "P">>, <<16, "Q">>, <<19, "R">>,
    <<31, "S">>, <<20, "T">>, <<22, "U">>, <<47, "V">>, <<17, "W">>, <<45, "X">>,
    <<21, "Y">>, <<44, "Z">>, <<11, "Key0">>, <<2, "Key1">>, <<3, "Key2">>,
    <<4, "Key3">>, <<5, "Key4">>, <<6, "Key5">>, <<7, "Key6">>, <<8, "Key7">>,
    <<9, "Key8">>, <<10, "Key9">>, <<1, "Escape">>, <<28, "Return">>>>

===============================================================================
